---- MODULE Spec2Model ----
(***************************************************************************)
(* Pending-payment lifecycle of the Telegram store bot.                    *)
(*                                                                         *)
(* The repository holds three variants of the worker:                      *)
(*   "deposit" : src/unnamed/part_000 lines 1-639   (top-up by QRIS,       *)
(*               pending payments keyed by user id)                        *)
(*   "shop"    : src/unnamed/part_000 lines 641-1364 (purchase by QRIS,    *)
(*               pending payments keyed by payment id, no status field)    *)
(*   "store"   : src/index.js                       (purchase by invoice,  *)
(*               pending payments keyed by trxid, with a status field and  *)
(*               a provider webhook)                                       *)
(* A deployment runs one of them; `variant` says which.                    *)
(*                                                                         *)
(* Every request is an invocation of the worker.  The KV store is the only *)
(* durable shared state; an invocation may be interleaved with others at   *)
(* each of its awaits, so each KV get, KV put and provider call is one     *)
(* step, and what an invocation holds between two awaits (the value it     *)
(* loaded, its parameters) is kept in its slot of `proc`.                  *)
(***************************************************************************)
EXTENDS Integers, Sequences, FiniteSets, TLC

\* ------------------------------------------------------------------ bounds
NumProcs == 2          \* invocations that may be in flight at once
NumUsers == 2          \* Telegram users
MaxInvoices == 2       \* invoices the provider issues in one run
MaxTime == 2           \* the clock runs 0..MaxTime (minutes)
MaxRequests == 3       \* requests the worker receives in one run
MaxExpiryMinutes == 1  \* the provider's expired_minutes is in 1..MaxExpiryMinutes
MaxStoreRequests == 4  \* requests a shop or store worker receives in one run
MaxHistoryCalls == 104      \* calls of addTransaction in a run of it alone
MaxPushCalls == 202         \* purchase entries pushed in a run of the push alone
MaxStock == 2               \* largest stock of a counter-backed product at the start
MaxCronTime == 185          \* last minute of the clock of the broadcast runs
MaxLongRequests == 7   \* requests of a run that takes one invocation at a time
ProductPrice == 5000   \* the price the admin gave the product

Procs == 1..NumProcs
Users == 1..NumUsers
TrxIds == 1..MaxInvoices

\* --------------------------------------------------- program constants
MinAmount == 1000          \* env.MIN_AMOUNT || '1000'
DefaultExpiryMinutes == 10 \* expired_minutes || 10
TxCap == 50                \* slice(-50)

\* part_000:772  the shop keeps the last 100 entries of a user's history
ShopTxCap == 100

\* index.js:585  env.ADMIN_ID: the admin is not one of the buyers
AdminId == 0
MinGapMinutes == 30        \* minGapMs = 30 * 60 * 1000
MaxPerHour == 2            \* broadcast.sentThisHour < 2
MinutesPerHour == 60       \* getUTCHours
HoursPerDay == 24          \* getUTCHours
RandomAmountRange == {1}   \* getRandomAmount: RANDOM_AMOUNT_MIN..RANDOM_AMOUNT_MAX
ProviderFees == {144}      \* data.fee of the create response

\* loadRewardSettings: the default settings, returned while no reward_settings
\* key is stored
RewardSettings ==
    [enabled |-> TRUE,
     depositBonus |-> [enabled |-> TRUE, percentage |-> 5,
                       minAmount |-> 10000, maxBonus |-> 50000]]

\* what the reward_settings key may hold when an admin has stored settings
RewardSettingsInputs ==
    [enabled : BOOLEAN,
     depositBonus : [enabled : BOOLEAN, percentage : {5},
                     minAmount : {10000, 20000}, maxBonus : {300, 50000}]]

\* the decimal digits; a text is the sequence of its characters
Digits == <<"0", "1", "2", "3", "4", "5", "6", "7", "8", "9">>
IsDigit(c) == \E i \in 1..Len(Digits) : Digits[i] = c
DigitValue(c) == (CHOOSE i \in 1..Len(Digits) : Digits[i] = c) - 1

\* the value of the longest run of digits text begins with, after acc
RECURSIVE LeadingDigits(_, _)
LeadingDigits(text, acc) ==
    IF text = <<>> \/ ~IsDigit(Head(text)) THEN acc
    ELSE LeadingDigits(Tail(text), 10 * acc + DigitValue(Head(text)))

RECURSIVE TrimStart(_)
TrimStart(text) ==
    IF text # <<>> /\ Head(text) = " " THEN TrimStart(Tail(text)) ELSE text

\* part_000:331  parseInt(text): leading blanks are skipped, a sign is taken,
\* then the digits up to the first character that is not one; NaN when there
\* is no digit there
parseInt(text) ==
    LET t == TrimStart(text)
        signed == t # <<>> /\ Head(t) \in {"-", "+"}
        body == IF signed THEN Tail(t) ELSE t
        n == LeadingDigits(body, 0)
    IN IF body = <<>> \/ ~IsDigit(Head(body)) THEN [nan |-> TRUE, n |-> 0]
       ELSE [nan |-> FALSE, n |-> IF signed /\ Head(t) = "-" THEN 0 - n ELSE n]

\* what a user types as a deposit nominal
DepositTexts == {<<"5", "0", "0">>, <<"1", "0", "0", "0", "0">>}

\* the nominals of those texts
DepositInputs == {parseInt(text).n : text \in DepositTexts}

\* texts a user may type instead of a nominal
ParseTexts ==
    {<<>>, <<"a", "b", "c">>, <<"0">>, <<"-", "5", "0", "0", "0">>,
     <<"9", "9", "9">>, <<"1", "0", "0", "0">>, <<"5", "0", "0", "0">>,
     <<"5", "0", "0", "0", "a", "b", "c">>, <<"1", "2", "a", "b", "c">>,
     <<"a", "5", "0", "0", "0">>}

\* the store's catalog: one product, loaded by the admin before the run
Skus == {"sku"}
InitialList == <<1, 2>>
\* body.list of a later POST /admin/add_product
AdminLists == {<<>>, <<3>>}
\* payload.status of a provider webhook
WebhookStatuses == {"success", "pending", "expired"}
\* env.CALLBACK_SECRET of the deployment, and the secret headers a webhook
\* request may carry ("" for a request without such a header)
CALLBACK_SECRET == "secret"
SecretHeaders == {CALLBACK_SECRET, "wrong", ""}

VARIABLES
    variant,    \* which worker is deployed
    now,        \* the clock, in minutes
    kv,         \* the KV store: one value per key
    issued,     \* number of invoices the provider has issued
    paid,       \* the invoices the provider holds as paid
    proc,       \* the invocations in flight: their position and locals
    lastFulfilled, \* the invoice the invocation that completed last fulfilled, or 0 (history)
    credited,   \* per invoice: times its fulfillment changed balance/inventory (history)
    recorded,   \* per invoice: deposit/purchase transactions written for it (history)
    requests,   \* number of requests received so far
    sessions,   \* userSessions: the worker's in-memory Map
    swept,      \* the invoices whose expired record a sweep removed (history)
    budget,     \* number of requests this run admits
    provider,   \* the endpoint not held to its documentation: "status", "create"
                \* or none ("documented")
    aired       \* the last broadcast: its time and its number among the
                \* broadcasts of its clock hour (history)

vars == <<variant, now, kv, issued, paid, proc, lastFulfilled, credited, recorded, requests, sessions, swept, budget, provider, aired>>

\* ----------------------------------------------------------- JS objects
\* A JS object is a function on the set of its keys.
Has(obj, k) == k \in DOMAIN obj
Put(obj, k, v) == [x \in DOMAIN obj \cup {k} |-> IF x = k THEN v ELSE obj[x]]
\* a delete that leaves the key in place
DelNothing(obj, k) == obj
\* delete obj[k]
Del(obj, k) == [x \in DOMAIN obj \ {k} |-> obj[x]]
EmptyObj == <<>>

\* A JS value of a provider answer: undefined, a boolean or a string (the
\* sequence of its characters).
Undefined == [t |-> "undefined", b |-> FALSE, s |-> <<>>]
Bool(x) == [t |-> "boolean", b |-> x, s |-> <<>>]
Str(chars) == [t |-> "string", b |-> FALSE, s |-> chars]

\* ToBoolean, a || b, and toString() of a value
Truthy(v) == (v.t = "boolean" /\ v.b) \/ (v.t = "string" /\ v.s # <<>>)
Or(a, b) == IF Truthy(a) THEN a ELSE b
toString(v) ==
    CASE v.t = "string" -> v.s
      [] v.t = "boolean" -> IF v.b THEN <<"t", "r", "u", "e">>
                            ELSE <<"f", "a", "l", "s", "e">>
      [] OTHER -> <<"u", "n", "d", "e", "f", "i", "n", "e", "d">>

\* a parsed answer of the provider's status endpoint with the fields the
\* workers read, and the null of a failed call or an unparsable body
Response(status, paidField) ==
    [ok |-> TRUE, status |-> status, payment_status |-> Undefined,
     result |-> Undefined, paid |-> paidField]
NullResponse == [Response(Undefined, Undefined) EXCEPT !.ok = FALSE]

\* values the status, payment_status, result and paid fields of an answer may
\* carry
StatusInputs ==
    {Undefined, Bool(TRUE), Bool(FALSE), Str(<<>>),
     Str(<<"s", "u", "c", "c", "e", "s", "s">>),
     Str(<<"P", "A", "I", "D">>), Str(<<"p", "a", "i", "d">>),
     Str(<<"s", "e", "t", "t", "l", "e", "d">>),
     Str(<<"u", "n", "p", "a", "i", "d">>),
     Str(<<"p", "e", "n", "d", "i", "n", "g">>),
     Str(<<"E", "X", "P", "I", "R", "E", "D">>)}
FallbackInputs == {Undefined, Str(<<"s", "u", "c", "c", "e", "s", "s">>)}
PaidInputs == {Undefined, Bool(TRUE), Bool(FALSE)}

\* any answer of the provider's status endpoint
RawResponses ==
    {NullResponse} \cup
    [ok : {TRUE}, status : StatusInputs, payment_status : FallbackInputs,
     result : FallbackInputs, paid : PaidInputs]

\* answers that do not say the invoice is paid: no status string, no
\* payment_status, paid false or absent
UnknownResponses ==
    {r \in RawResponses :
        r.ok /\ r.status.t # "string" /\ r.payment_status = Undefined /\ r.paid # Bool(TRUE)}

\* the answers the status endpoint may give for invoice t: the documented
\* ones, and for an invoice it does not hold as paid, when the endpoint is
\* not held to its documentation, the unknown ones
Answers(documented, t) ==
    documented \cup (IF provider = "status" /\ t \notin paid THEN UnknownResponses ELSE {})

\* The success answers of the create endpoint for a new invoice id: trxid is
\* the payment id (0 when the answer carries none), qr whether it carries a QR
\* asset. The documented answer carries both.
CreateResponses(id) ==
    {[trxid |-> id, qr |-> TRUE]} \cup
    (IF provider = "create"
     THEN {[trxid |-> 0, qr |-> TRUE], [trxid |-> id, qr |-> FALSE],
           [trxid |-> 0, qr |-> FALSE]}
     ELSE {})

\* index.js:498 'TRX' + Date.now(), part_000:1075 'PM' + Date.now(): the id
\* made up when the answer carries none; never an id of the provider
LocalId == MaxInvoices + 1 + now

\* the ascending sequence of a finite set of integers (Object.entries visits
\* integer-like keys in ascending order)
RECURSIVE Ascending(_)
Ascending(S) ==
    IF S = {} THEN <<>>
    ELSE LET m == CHOOSE x \in S : \A y \in S : x <= y
         IN <<m>> \o Ascending(S \ {m})

\* An invocation slot: pc is the await it stands at, the rest are its locals.
Idle ==
    [pc |-> "idle", op |-> "none", user |-> 0, trx |-> 0, arg |-> 0,
     rec |-> <<>>, buf |-> <<>>, buf2 |-> <<>>, todo |-> <<>>, who |-> 0, tx |-> <<>>,
     ret |-> "none", out |-> "none", startExpired |-> FALSE, resp |-> <<>>,
     text |-> <<>>]

Done(pr, outcome) ==
    [Idle EXCEPT !.pc = "done", !.op = pr.op, !.user = pr.user, !.trx = pr.trx,
                 !.out = outcome, !.startExpired = pr.startExpired]

\* ------------------------------------------- deposit variant: pure parts

\* part_000:371-372  diffMinutes > (expired_minutes || 10)
ExpiryLimit(payment) ==
    IF payment.expired_minutes = 0 THEN DefaultExpiryMinutes
    ELSE payment.expired_minutes

\* the expiry test, one minute late
IsExpiredLate(payment, t) == t - payment.timestamp > ExpiryLimit(payment) + 1

IsExpired(payment, t) == t - payment.timestamp > ExpiryLimit(payment)

\* the bonus without the minimum deposit
calculateDepositBonusNoMinimum(nominal) ==
    LET s == kv.reward_settings IN
    IF ~s.enabled \/ ~s.depositBonus.enabled THEN 0
    ELSE LET bonus == (nominal * s.depositBonus.percentage) \div 100
         IN IF bonus > s.depositBonus.maxBonus THEN s.depositBonus.maxBonus
            ELSE bonus

\* part_000:168-175
calculateDepositBonus(nominal) ==
    LET s == kv.reward_settings IN
    IF ~s.enabled \/ ~s.depositBonus.enabled THEN 0
    ELSE IF nominal < s.depositBonus.minAmount THEN 0
    ELSE LET bonus == (nominal * s.depositBonus.percentage) \div 100
         IN IF bonus > s.depositBonus.maxBonus THEN s.depositBonus.maxBonus
            ELSE bonus

\* push, then keep the first 50
addTransactionKeepOldest(transactions, userId, txn) ==
    LET cur == IF Has(transactions, userId) THEN transactions[userId] ELSE <<>>
        pushed == Append(cur, txn)
    IN Put(transactions, userId,
           IF Len(pushed) > TxCap THEN SubSeq(pushed, 1, TxCap) ELSE pushed)

\* part_000:50-65  push, then keep the last 50 (id and timestamp of the entry
\* are not modelled: nothing reads them)
addTransaction(transactions, userId, txn) ==
    LET cur == IF Has(transactions, userId) THEN transactions[userId] ELSE <<>>
        pushed == Append(cur, txn)
        kept == IF Len(pushed) > TxCap
                THEN SubSeq(pushed, Len(pushed) - TxCap + 1, Len(pushed))
                ELSE pushed
    IN Put(transactions, userId, kept)

\* part_000:405  data && data.status === 'success' && data.paid === true
DepositPaid(resp) ==
    /\ resp.ok
    /\ resp.status = Str(<<"s", "u", "c", "c", "e", "s", "s">>)
    /\ resp.paid = Bool(TRUE)

\* what API_CHECK_PAYMENT may answer for an invoice: the request may fail
\* (non-2xx, unparsable); "status" is the request's status, "paid" the invoice's
CheckResponses(t) ==
    Answers({NullResponse,
             Response(Str(<<"s", "u", "c", "c", "e", "s", "s">>), Bool(t \in paid))}, t)

\* part_000:178-182  users[uId].saldo += nominal + bonus
creditUser(users, uId, totalCredit) ==
    LET cur == IF Has(users, uId) THEN users[uId] ELSE [saldo |-> 0]
    IN Put(users, uId, [cur EXCEPT !.saldo = cur.saldo + totalCredit])

Bump(f, t) == [f EXCEPT ![t] = f[t] + 1]

\* ------------------------------------------------ deposit variant: steps
Set(p, pr) == proc' = [proc EXCEPT ![p] = pr]

\* user u's pending deposit is invoice t and its lifetime is over:
\* now - timestamp > expired_minutes
ExpiredAt(pend, u, t) ==
    /\ Has(pend, u)
    /\ pend[u].transactionId = t
    /\ now - pend[u].timestamp > pend[u].expired_minutes

\* part_000:589-618  the router calls the handler once cleanupExpiredPayments is
\* through; a confirm is marked when the record it is for is expired as its
\* handler is entered
Dispatch(pr, pend) ==
    CASE pr.op = "cleanup" -> Done(pr, "Swept")
      [] pr.op = "deposit" -> [pr EXCEPT !.pc = "dep_get"]
      [] pr.op = "cancel" -> [pr EXCEPT !.pc = "cancel_get"]
      [] pr.op = "confirm" ->
            [pr EXCEPT !.pc = "conf_get",
                       !.startExpired = ExpiredAt(pend, pr.user, pr.trx)]

\* part_000:504-525  the for loop over the snapshot's expired entries
SweepNext(pr, todo) ==
    IF todo = <<>> THEN [pr EXCEPT !.pc = "dispatch"]
    ELSE [pr EXCEPT !.pc = "rm_load", !.who = Head(todo), !.todo = Tail(todo),
                    !.ret = "sweep"]

\* part_000:584-589 and 628-638: a request arrives (POST /, GET /cleanup,
\* scheduled); a message carries one of texts
ReceiveText(p, texts) ==
    /\ variant = "deposit"
    /\ proc[p].pc = "idle"
    /\ \A q \in Procs : q < p => proc[q].pc # "idle"
    /\ requests < budget
    /\ requests' = requests + 1
    /\ \/ \E u \in Users, text \in texts :
            Set(p, [Idle EXCEPT !.pc = "sweep_load", !.op = "deposit",
                                !.user = u, !.text = text])
       \/ \E u \in Users, t \in 1..issued :
            Set(p, [Idle EXCEPT !.pc = "sweep_load", !.op = "confirm",
                                !.user = u, !.trx = t])
       \/ \E u \in Users :
            Set(p, [Idle EXCEPT !.pc = "sweep_load", !.op = "cancel", !.user = u])
       \/ Set(p, [Idle EXCEPT !.pc = "sweep_load", !.op = "cleanup"])
    /\ UNCHANGED <<variant, provider, aired, budget, swept, now, kv, issued, paid, lastFulfilled, credited, recorded, sessions>>

ReceiveUpdate(p) == ReceiveText(p, DepositTexts)

\* part_000:498-508  loadPendingPayments, now, and the expiry test of each entry
cleanupExpiredPayments(p) ==
    /\ proc[p].pc = "sweep_load"
    /\ LET pend == kv.pending_payments
           todo == Ascending({u \in DOMAIN pend : IsExpired(pend[u], now)})
       IN Set(p, SweepNext(proc[p], todo))
    /\ UNCHANGED <<variant, provider, aired, budget, swept, now, kv, issued, paid, lastFulfilled, credited, recorded, requests, sessions>>

\* part_000:589-618  the sweep has returned: the handler is entered
routeUpdate(p) ==
    /\ proc[p].pc = "dispatch"
    /\ Set(p, Dispatch(proc[p], kv.pending_payments))
    /\ UNCHANGED <<variant, provider, aired, budget, swept, now, kv, issued, paid, lastFulfilled, credited, recorded, requests, sessions>>

\* part_000:40-41  removePendingPayment: loadDB
removePendingPaymentLoad(p) ==
    /\ proc[p].pc = "rm_load"
    /\ Set(p, [proc[p] EXCEPT !.pc = "rm_save", !.buf = kv.pending_payments])
    /\ UNCHANGED <<variant, provider, aired, budget, swept, now, kv, issued, paid, lastFulfilled, credited, recorded, requests, sessions>>

\* part_000:42-43  removePendingPayment: delete, saveDB; then the caller goes on
removePendingPaymentSave(p) ==
    /\ proc[p].pc = "rm_save"
    /\ LET pr == [proc[p] EXCEPT !.buf = <<>>, !.who = 0, !.ret = "none"]
           pend == Del(proc[p].buf, proc[p].who)
       IN /\ kv' = [kv EXCEPT !.pending_payments = pend]
          /\ swept' = IF /\ proc[p].ret = "sweep"
                         /\ Has(kv.pending_payments, proc[p].who)
                         /\ IsExpired(kv.pending_payments[proc[p].who], now)
                      THEN swept \cup {kv.pending_payments[proc[p].who].transactionId}
                      ELSE swept
          /\ Set(p, CASE proc[p].ret = "sweep" -> SweepNext(pr, pr.todo)
                      [] proc[p].ret = "expired" -> Done(pr, "Expired")
                      [] proc[p].ret = "cancel" -> Done(pr, "Cancelled")
                      [] proc[p].ret = "fulfil" -> Done(pr, "Fulfilled"))
    /\ UNCHANGED <<variant, provider, aired, budget, now, issued, paid, lastFulfilled, credited, recorded, requests, sessions>>

\* part_000:323-339  handleDepositMessage up to createQrisAndConfirm
handleDepositMessage(p) ==
    /\ proc[p].pc = "dep_get"
    /\ LET pr == proc[p]
           nominal == parseInt(pr.text)
       IN Set(p, IF Has(kv.pending_payments, pr.user) THEN Done(pr, "AlreadyPending")
                 ELSE IF nominal.nan \/ nominal.n <= 0 THEN Done(pr, "Invalid")
                 ELSE IF nominal.n < MinAmount THEN Done(pr, "BelowMinimum")
                 ELSE [pr EXCEPT !.pc = "qris_fetch", !.arg = nominal.n])
    /\ UNCHANGED <<variant, provider, aired, budget, swept, now, kv, issued, paid, lastFulfilled, credited, recorded, requests, sessions>>

\* part_000:207-246  createQrisAndConfirm: the create call and paymentData
createQrisAndConfirm(p) ==
    /\ proc[p].pc = "qris_fetch"
    /\ \/ /\ Set(p, Done(proc[p], "CreateFailed"))
          /\ UNCHANGED issued
       \/ /\ issued < MaxInvoices
          /\ \E data \in CreateResponses(issued + 1),
                randomAddition \in RandomAmountRange, fee \in ProviderFees,
                expiredMinutes \in 1..MaxExpiryMinutes :
                LET finalNominal == proc[p].arg + randomAddition
                    paymentData ==
                        [nominal |-> proc[p].arg,
                         finalNominal |-> finalNominal + fee,
                         transactionId |-> data.trxid,
                         timestamp |-> now,
                         status |-> "pending",
                         messageId |-> 0,
                         expired_minutes |-> expiredMinutes,
                         fee |-> fee]
                IN /\ issued' = IF data.trxid = 0 THEN issued ELSE issued + 1
                   \* part_000:231  !qrisUrl || !transactionId throws
                   /\ Set(p, IF ~data.qr \/ data.trxid = 0
                             THEN Done(proc[p], "CreateFailed")
                             ELSE [proc[p] EXCEPT !.pc = "sv_load", !.rec = paymentData,
                                       !.trx = data.trxid, !.ret = "photo",
                                       !.resp = data])
    /\ UNCHANGED <<variant, provider, aired, budget, swept, now, kv, paid, lastFulfilled, credited, recorded, requests, sessions>>

\* part_000:35-36  savePendingPayment: loadDB
savePendingPaymentLoad(p) ==
    /\ proc[p].pc = "sv_load"
    /\ Set(p, [proc[p] EXCEPT !.pc = "sv_save", !.buf = kv.pending_payments])
    /\ UNCHANGED <<variant, provider, aired, budget, swept, now, kv, issued, paid, lastFulfilled, credited, recorded, requests, sessions>>

\* part_000:37-38  savePendingPayment: pendings[userId] = data, saveDB
savePendingPaymentSave(p) ==
    /\ proc[p].pc = "sv_save"
    /\ kv' = [kv EXCEPT !.pending_payments = Put(proc[p].buf, proc[p].user, proc[p].rec)]
    /\ Set(p, IF proc[p].ret = "photo"
              THEN [proc[p] EXCEPT !.pc = "photo", !.buf = <<>>, !.ret = "none"]
              ELSE [proc[p] EXCEPT !.pc = "tx_load", !.buf = <<>>, !.rec = <<>>,
                        !.tx = [type |-> "deposit_pending", amount |-> proc[p].arg,
                                productName |-> "Deposit"],
                        !.ret = "created"])
    /\ UNCHANGED <<variant, provider, aired, budget, swept, now, issued, paid, lastFulfilled, credited, recorded, requests, sessions>>

\* part_000:282-286  sendTelegramPhoto; with a message id the record is saved again
sendTelegramPhoto(p) ==
    /\ proc[p].pc = "photo"
    /\ \/ Set(p, [proc[p] EXCEPT !.pc = "sv_load", !.rec.messageId = 1,
                                  !.ret = "resave"])
       \/ Set(p, [proc[p] EXCEPT !.pc = "tx_load", !.rec = <<>>,
                        !.tx = [type |-> "deposit_pending", amount |-> proc[p].arg,
                                productName |-> "Deposit"],
                        !.ret = "created"])
    /\ UNCHANGED <<variant, provider, aired, budget, swept, now, kv, issued, paid, lastFulfilled, credited, recorded, requests, sessions>>

\* part_000:51  addTransaction: loadDB
addTransactionLoad(p) ==
    /\ proc[p].pc = "tx_load"
    /\ Set(p, [proc[p] EXCEPT !.pc = "tx_save", !.buf = kv.transactions])
    /\ UNCHANGED <<variant, provider, aired, budget, swept, now, kv, issued, paid, lastFulfilled, credited, recorded, requests, sessions>>

\* part_000:52-64  addTransaction: push, cap, saveDB; then the caller goes on
\* (part_000:186 the bonus entry, part_000:410 removePendingPayment)
addTransactionSave(p) ==
    /\ proc[p].pc = "tx_save"
    /\ kv' = [kv EXCEPT !.transactions =
                    addTransaction(proc[p].buf, proc[p].user, proc[p].tx)]
    /\ recorded' = IF proc[p].tx.type = "deposit" THEN Bump(recorded, proc[p].trx)
                   ELSE recorded
    /\ LET pr == [proc[p] EXCEPT !.buf = <<>>, !.tx = <<>>, !.ret = "none"]
           bonus == calculateDepositBonus(pr.arg)
       IN Set(p, CASE proc[p].ret = "created" -> Done(pr, "Created")
                   [] proc[p].ret = "bonus" /\ bonus > 0 ->
                        [pr EXCEPT !.pc = "tx_load",
                                   !.tx = [type |-> "bonus", amount |-> bonus,
                                           productName |-> "Bonus Deposit"],
                                   !.ret = "remove"]
                   [] OTHER ->
                        [pr EXCEPT !.pc = "rm_load", !.who = pr.user, !.ret = "fulfil"])
    /\ UNCHANGED <<variant, provider, aired, budget, swept, now, issued, paid, lastFulfilled, credited, requests, sessions>>

\* a confirm handler that takes any button for the current deposit
StaleButtonNever(payment, transactionIdFromCallback) == FALSE

\* part_000:361-362  paymentData.transactionId !== transactionIdFromCallback
StaleButton(payment, transactionIdFromCallback) ==
    payment.transactionId # transactionIdFromCallback

\* part_000:355-392  handleConfirmPayment: lookup, id check, expiry check
handleConfirmPayment(p) ==
    /\ proc[p].pc = "conf_get"
    /\ LET pr == proc[p]
           pend == kv.pending_payments
       IN Set(p, IF ~Has(pend, pr.user) THEN Done(pr, "NotFound")
                 ELSE IF StaleButton(pend[pr.user], pr.trx) THEN Done(pr, "Mismatch")
                 ELSE IF IsExpired(pend[pr.user], now)
                      THEN [pr EXCEPT !.pc = "rm_load", !.who = pr.user, !.ret = "expired"]
                 ELSE [pr EXCEPT !.pc = "conf_fetch", !.arg = pend[pr.user].nominal])
    /\ UNCHANGED <<variant, provider, aired, budget, swept, now, kv, issued, paid, lastFulfilled, credited, recorded, requests, sessions>>

\* part_000:394-405, 448-454  the status call and its reading
checkPayment(p) ==
    /\ proc[p].pc = "conf_fetch"
    /\ \E resp \in CheckResponses(proc[p].trx) :
            Set(p, IF DepositPaid(resp) THEN [proc[p] EXCEPT !.pc = "users_load"]
                   ELSE Done(proc[p], "NotYetPaid"))
    /\ UNCHANGED <<variant, provider, aired, budget, swept, now, kv, issued, paid, lastFulfilled, credited, recorded, requests, sessions>>

\* part_000:177  processDepositWithBonus: loadDB users
processDepositLoad(p) ==
    /\ proc[p].pc = "users_load"
    /\ Set(p, [proc[p] EXCEPT !.pc = "users_save", !.buf = kv.users])
    /\ UNCHANGED <<variant, provider, aired, budget, swept, now, kv, issued, paid, lastFulfilled, credited, recorded, requests, sessions>>

\* part_000:178-185  processDepositWithBonus: credit nominal + bonus, saveDB
processDepositWithBonus(p) ==
    /\ proc[p].pc = "users_save"
    /\ LET nominal == proc[p].arg
           bonus == calculateDepositBonus(nominal)
       IN kv' = [kv EXCEPT !.users = creditUser(proc[p].buf, proc[p].user, nominal + bonus)]
    /\ credited' = Bump(credited, proc[p].trx)
    /\ Set(p, [proc[p] EXCEPT !.pc = "tx_load", !.buf = <<>>,
                    !.tx = [type |-> "deposit", amount |-> proc[p].arg,
                            productName |-> "Deposit"],
                    !.ret = "bonus"])
    /\ UNCHANGED <<variant, provider, aired, budget, swept, now, issued, paid, lastFulfilled, recorded, requests, sessions>>

\* part_000:463-469  handleCancelPayment
handleCancelPayment(p) ==
    /\ proc[p].pc = "cancel_get"
    /\ Set(p, IF ~Has(kv.pending_payments, proc[p].user) THEN Done(proc[p], "NotFound")
              ELSE [proc[p] EXCEPT !.pc = "rm_load", !.who = proc[p].user,
                                   !.ret = "cancel"])
    /\ UNCHANGED <<variant, provider, aired, budget, swept, now, kv, issued, paid, lastFulfilled, credited, recorded, requests, sessions>>

\* the invocation returns its Response
Respond(p) ==
    /\ proc[p].pc = "done"
    /\ lastFulfilled' = IF proc[p].out = "Fulfilled" THEN proc[p].trx ELSE 0
    /\ Set(p, Idle)
    /\ UNCHANGED <<variant, provider, aired, budget, swept, now, kv, issued, paid, credited, recorded, requests, sessions>>

\* ------------------------------------------------- store variant: pure parts

\* index.js:22-32  getUserSession (a session lives 30 minutes; the clock of a
\* run ends before that, so no session of the run is ever too old)
getUserSession(userId) ==
    IF Has(sessions, userId) THEN sessions[userId] ELSE [action |-> "none"]

HasSession(sess) == sess.action = "browsing_product"

\* index.js:378-381  the quantity after a +/- button
changedQty(product, sessQty, delta) ==
    LET q0 == IF sessQty = 0 THEN 1 ELSE sessQty
        q1 == q0 + delta
        q2 == IF q1 < 1 THEN 1 ELSE q1
    IN IF q2 > Len(product.list) THEN Len(product.list) ELSE q2

\* index.js:423
buyAllQty(product) == IF Len(product.list) > 0 THEN Len(product.list) ELSE 1

\* index.js:465  session.qty || 1
purchaseQty(sess) == IF sess.qty = 0 THEN 1 ELSE sess.qty

\* index.js:466  !product.list || product.list.length < qty
InsufficientStock(product, qty) == Len(product.list) < qty

\* index.js:566  verify && (status === 'success' || paid === true || status === true)
VerifyPaid(verify) ==
    /\ verify.ok
    /\ \/ verify.status = Str(<<"s", "u", "c", "c", "e", "s", "s">>)
       \/ verify.paid = Bool(TRUE)
       \/ verify.status = Bool(TRUE)

\* what the provider's status endpoint may answer for an invoice; a failed call
\* or an unparsable body makes verifyInvoiceStatus return null (ok = FALSE)
VerifyResponses(t) ==
    Answers({NullResponse,
             IF t \in paid
             THEN Response(Str(<<"s", "u", "c", "c", "e", "s", "s">>), Bool(TRUE))
             ELSE Response(Str(<<"p", "e", "n", "d", "i", "n", "g">>), Bool(FALSE))}, t)

\* processSuccessfulPayment without its guard
AlreadyProcessedNever(payment) == FALSE

\* index.js:603  the guard against processing a payment twice
AlreadyProcessed(payment) == payment.status = "paid"

\* index.js:827  status === 'success' || status === 'PAID' || payload.paid === true
WebhookSuccess(status) == status = "success" \/ status = "PAID"

\* index.js:791-797  the product an add_product request stores
newProduct(list) ==
    [title |-> "Produk", price |-> ProductPrice, list |-> list, stock |-> Len(list)]

\* a delivery of the last qty items instead of the first
takeItemsLast(product, qty) ==
    SubSeq(product.list, Len(product.list) - qty + 1, Len(product.list))

\* index.js:625-628  splice(0, qty) and the stock that follows
takeItems(product, qty) == SubSeq(product.list, 1, qty)

\* the splice without the stock that follows it
afterTakeStaleStock(product, qty) ==
    [product EXCEPT !.list = SubSeq(product.list, qty + 1, Len(product.list))]

afterTake(product, qty) ==
    LET rest == SubSeq(product.list, qty + 1, Len(product.list))
    IN [product EXCEPT !.list = rest, !.stock = Len(rest)]

\* index.js:639-649  push of the purchase entry (id, timestamps and the provider
\* payload are not modelled: nothing reads them)
pushPurchase(transactions, payment, items) ==
    LET cur == IF Has(transactions, payment.userId) THEN transactions[payment.userId]
               ELSE <<>>
    IN Put(transactions, payment.userId,
           Append(cur, [type |-> "purchase", amount |-> payment.amount,
                        productSku |-> payment.productSku, qty |-> payment.qty,
                        items |-> items]))

\* ------------------------------------------------------ store variant: steps
StoreDone(pr, outcome) == [Done(pr, outcome) EXCEPT !.who = pr.who, !.text = pr.text]

PastExpiry(pend, t) == Has(pend, t) /\ now > pend[t].expiresAt

\* index.js:904-975 and 1008-1031: a request arrives and the handler runs up to
\* its first await
StoreReceive(p) ==
    /\ variant = "store"
    /\ proc[p].pc = "idle"
    /\ \A q \in Procs : q < p => proc[q].pc # "idle"
    /\ requests < budget
    /\ requests' = requests + 1
    /\ \/ \E u \in Users :
            Set(p, [Idle EXCEPT !.pc = "sel_load", !.op = "select", !.user = u])
       \/ \E u \in Users, delta \in {-1, 1} :
            LET sess == getUserSession(u)
                pr == [Idle EXCEPT !.op = "qty", !.user = u, !.arg = delta]
            IN Set(p, IF HasSession(sess)
                      THEN [pr EXCEPT !.pc = "qty_load", !.rec = sess]
                      ELSE StoreDone(pr, "NoSession"))
       \/ \E u \in Users :
            LET sess == getUserSession(u)
                pr == [Idle EXCEPT !.op = "buyall", !.user = u]
            IN Set(p, IF HasSession(sess)
                      THEN [pr EXCEPT !.pc = "buyall_load", !.rec = sess]
                      ELSE StoreDone(pr, "NoSession"))
       \/ \E u \in Users :
            LET sess == getUserSession(u)
                pr == [Idle EXCEPT !.op = "purchase", !.user = u]
            IN Set(p, IF HasSession(sess)
                      THEN [pr EXCEPT !.pc = "pur_load", !.rec = sess]
                      ELSE StoreDone(pr, "NoSession"))
       \/ \E u \in Users, t \in 1..issued :
            Set(p, [Idle EXCEPT !.pc = "chk_load", !.op = "check", !.user = u,
                                !.trx = t,
                                !.startExpired = PastExpiry(kv.pending_payments, t)])
       \/ \E u \in Users \cup {AdminId}, t \in 1..issued :
            Set(p, [Idle EXCEPT !.pc = "cxl_load", !.op = "cancel", !.user = u,
                                !.trx = t])
       \/ \E t \in 1..issued, status \in WebhookStatuses :
            /\ status = "success" => t \in paid
            /\ Set(p, [Idle EXCEPT !.pc = IF WebhookSuccess(status) THEN "psp_load"
                                          ELSE "wh_load",
                                   !.op = "webhook", !.trx = t, !.tx = status,
                                   !.text = CALLBACK_SECRET])
       \/ \E list \in AdminLists :
            Set(p, [Idle EXCEPT !.pc = "add_load", !.op = "add_product",
                                !.rec = newProduct(list)])
    /\ UNCHANGED <<variant, provider, aired, budget, swept, now, kv, issued, paid, lastFulfilled, credited, recorded, sessions>>

\* a webhook endpoint that lets every request in
UnauthorizedNever(secret) == FALSE

\* index.js:811  env.CALLBACK_SECRET && secret !== env.CALLBACK_SECRET
Unauthorized(secret) == CALLBACK_SECRET # "" /\ secret # CALLBACK_SECRET

\* index.js:807-830  handleWebhook for a POST /webhook of any sender:
\* any secret header, any transaction id (0: the payload has none; beyond
\* issued: an id the provider never gave out), any status. The provider itself
\* reports success only for a paid invoice. 401 is the outcome Unauthorized,
\* 400 the outcome MissingTrx
WebhookReceive(p) ==
    /\ variant = "store"
    /\ proc[p].pc = "idle"
    /\ \A q \in Procs : q < p => proc[q].pc # "idle"
    /\ requests < budget
    /\ requests' = requests + 1
    /\ \E secret \in SecretHeaders, trxid \in 0..(MaxInvoices + 1),
          status \in WebhookStatuses :
            /\ (secret = CALLBACK_SECRET /\ status = "success" /\ trxid \in 1..issued)
                    => trxid \in paid
            /\ LET pr == [Idle EXCEPT !.op = "webhook", !.trx = trxid, !.tx = status,
                                      !.text = secret]
               IN Set(p, IF Unauthorized(secret) THEN StoreDone(pr, "Unauthorized")
                         ELSE IF trxid = 0 THEN StoreDone(pr, "MissingTrx")
                         ELSE IF WebhookSuccess(status) THEN [pr EXCEPT !.pc = "psp_load"]
                         ELSE [pr EXCEPT !.pc = "wh_load"])
    /\ UNCHANGED <<variant, provider, aired, budget, swept, now, kv, issued, paid, lastFulfilled, credited, recorded, sessions>>

\* index.js:328-337  handleCatalogSelect
handleCatalogSelect(p) ==
    /\ proc[p].pc = "sel_load"
    /\ \/ /\ \E key \in DOMAIN kv.accounts :
                sessions' = Put(sessions, proc[p].user,
                                [action |-> "browsing_product", productKey |-> key,
                                 qty |-> 1])
          /\ Set(p, StoreDone(proc[p], "Selected"))
       \/ /\ Set(p, StoreDone(proc[p], "NotFound"))
          /\ UNCHANGED sessions
    /\ UNCHANGED <<variant, provider, aired, budget, swept, now, kv, issued, paid, lastFulfilled, credited, recorded, requests>>

\* index.js:371-383  handleQtyChange after loadKV
handleQtyChange(p) ==
    /\ proc[p].pc = "qty_load"
    /\ LET sess == proc[p].rec IN
       IF Has(kv.accounts, sess.productKey)
       THEN /\ sessions' = Put(sessions, proc[p].user,
                    [sess EXCEPT !.qty = changedQty(kv.accounts[sess.productKey],
                                                    sess.qty, proc[p].arg)])
            /\ Set(p, StoreDone(proc[p], "Qty"))
       ELSE /\ Set(p, StoreDone(proc[p], "NotFound"))
            /\ UNCHANGED sessions
    /\ UNCHANGED <<variant, provider, aired, budget, swept, now, kv, issued, paid, lastFulfilled, credited, recorded, requests>>

\* index.js:417-424  handleBuyAll after loadKV
handleBuyAll(p) ==
    /\ proc[p].pc = "buyall_load"
    /\ LET sess == proc[p].rec IN
       IF Has(kv.accounts, sess.productKey)
       THEN /\ sessions' = Put(sessions, proc[p].user,
                    [sess EXCEPT !.qty = buyAllQty(kv.accounts[sess.productKey])])
            /\ Set(p, StoreDone(proc[p], "Qty"))
       ELSE /\ Set(p, StoreDone(proc[p], "NotFound"))
            /\ UNCHANGED sessions
    /\ UNCHANGED <<variant, provider, aired, budget, swept, now, kv, issued, paid, lastFulfilled, credited, recorded, requests>>

\* index.js:458-471  handlePurchaseConfirm: product and stock check
handlePurchaseConfirm(p) ==
    /\ proc[p].pc = "pur_load"
    /\ LET sess == proc[p].rec
           qty == purchaseQty(sess)
       IN Set(p, IF ~Has(kv.accounts, sess.productKey) THEN StoreDone(proc[p], "NotFound")
                 ELSE IF InsufficientStock(kv.accounts[sess.productKey], qty)
                      THEN StoreDone(proc[p], "InsufficientStock")
                 ELSE [proc[p] EXCEPT !.pc = "pur_invoice",
                            !.rec = [userId |-> proc[p].user,
                                     productSku |-> sess.productKey,
                                     qty |-> qty,
                                     amount |-> kv.accounts[sess.productKey].price * qty]])
    /\ UNCHANGED <<variant, provider, aired, budget, swept, now, kv, issued, paid, lastFulfilled, credited, recorded, requests, sessions>>

\* index.js:483-508  createInvoice and the pending record built from its answer
createInvoice(p) ==
    /\ proc[p].pc = "pur_invoice"
    /\ \/ /\ Set(p, StoreDone(proc[p], "CreateFailed"))
          /\ UNCHANGED issued
       \/ /\ issued < MaxInvoices
          /\ \E invoiceResp \in CreateResponses(issued + 1),
                expiredMinutes \in 1..MaxExpiryMinutes :
                LET r == proc[p].rec
                    \* index.js:498  invoiceResp.trxid || ... || ('TRX' + Date.now())
                    trxid == IF invoiceResp.trxid = 0 THEN LocalId ELSE invoiceResp.trxid
                IN /\ issued' = IF invoiceResp.trxid = 0 THEN issued ELSE issued + 1
                   /\ Set(p, [proc[p] EXCEPT !.pc = "pur_pload", !.trx = trxid,
                            !.resp = invoiceResp,
                            !.rec = [userId |-> r.userId, productSku |-> r.productSku,
                                     qty |-> r.qty, amount |-> r.amount,
                                     createdAt |-> now,
                                     expiresAt |-> now + expiredMinutes,
                                     status |-> "pending"]])
    /\ UNCHANGED <<variant, provider, aired, budget, swept, now, kv, paid, lastFulfilled, credited, recorded, requests, sessions>>

\* index.js:497  loadKV('pending_payments')
storePendingLoad(p) ==
    /\ proc[p].pc = "pur_pload"
    /\ Set(p, [proc[p] EXCEPT !.pc = "pur_psave", !.buf = kv.pending_payments])
    /\ UNCHANGED <<variant, provider, aired, budget, swept, now, kv, issued, paid, lastFulfilled, credited, recorded, requests, sessions>>

\* index.js:499-509  pending[trxid] = {...}; saveKV
storePendingSave(p) ==
    /\ proc[p].pc = "pur_psave"
    /\ kv' = [kv EXCEPT !.pending_payments = Put(proc[p].buf, proc[p].trx, proc[p].rec)]
    /\ Set(p, [proc[p] EXCEPT !.pc = "pur_clear", !.buf = <<>>, !.rec = <<>>])
    /\ UNCHANGED <<variant, provider, aired, budget, swept, now, issued, paid, lastFulfilled, credited, recorded, requests, sessions>>

\* index.js:549  clearUserSession once the invoice message is sent
purchaseClearSession(p) ==
    /\ proc[p].pc = "pur_clear"
    /\ sessions' = Del(sessions, proc[p].user)
    /\ Set(p, StoreDone(proc[p], "Created"))
    /\ UNCHANGED <<variant, provider, aired, budget, swept, now, kv, issued, paid, lastFulfilled, credited, recorded, requests>>

\* index.js:558-563  handleCheckPayment: lookup
handleCheckPayment(p) ==
    /\ proc[p].pc = "chk_load"
    /\ Set(p, IF Has(kv.pending_payments, proc[p].trx)
              THEN [proc[p] EXCEPT !.pc = "chk_verify"]
              ELSE StoreDone(proc[p], "NotFound"))
    /\ UNCHANGED <<variant, provider, aired, budget, swept, now, kv, issued, paid, lastFulfilled, credited, recorded, requests, sessions>>

\* index.js:565-572  verifyInvoiceStatus and its reading
verifyInvoiceStatus(p) ==
    /\ proc[p].pc = "chk_verify"
    /\ \E verify \in VerifyResponses(proc[p].trx) :
            Set(p, IF VerifyPaid(verify) THEN [proc[p] EXCEPT !.pc = "psp_load"]
                   ELSE StoreDone(proc[p], "NotYetPaid"))
    /\ UNCHANGED <<variant, provider, aired, budget, swept, now, kv, issued, paid, lastFulfilled, credited, recorded, requests, sessions>>

\* index.js:597-606  processSuccessfulPayment: lookup and the paid guard
processSuccessfulPayment(p) ==
    /\ proc[p].pc = "psp_load"
    /\ LET pending == kv.pending_payments
           t == proc[p].trx
       IN Set(p, IF ~Has(pending, t) THEN StoreDone(proc[p], "NotFound")
                 ELSE IF AlreadyProcessed(pending[t])
                      THEN StoreDone([proc[p] EXCEPT !.who = pending[t].userId],
                                     "AlreadyProcessed")
                 ELSE [proc[p] EXCEPT !.pc = "psp_accounts", !.buf = pending,
                                      !.who = pending[t].userId])
    /\ UNCHANGED <<variant, provider, aired, budget, swept, now, kv, issued, paid, lastFulfilled, credited, recorded, requests, sessions>>

\* index.js:608-628  loadKV('accounts'), the stock check and the splice
processPaymentAccounts(p) ==
    /\ proc[p].pc = "psp_accounts"
    /\ LET accounts == kv.accounts
           payment == proc[p].buf[proc[p].trx]
           sku == payment.productSku
       IN Set(p, IF ~Has(accounts, sku) \/ InsufficientStock(accounts[sku], payment.qty)
                 THEN [proc[p] EXCEPT !.pc = "psp_fail_save",
                                      !.buf[proc[p].trx].status = "failed"]
                 ELSE [proc[p] EXCEPT !.pc = "psp_acc_save",
                            !.todo = takeItems(accounts[sku], payment.qty),
                            !.buf2 = Put(accounts, sku, afterTake(accounts[sku], payment.qty))])
    /\ UNCHANGED <<variant, provider, aired, budget, swept, now, kv, issued, paid, lastFulfilled, credited, recorded, requests, sessions>>

\* index.js:613-615, 619-621  p.status = 'failed'; saveKV('pending_payments')
processPaymentFailed(p) ==
    /\ proc[p].pc = "psp_fail_save"
    /\ kv' = [kv EXCEPT !.pending_payments = proc[p].buf]
    /\ Set(p, StoreDone(proc[p], "Failed"))
    /\ UNCHANGED <<variant, provider, aired, budget, swept, now, issued, paid, lastFulfilled, credited, recorded, requests, sessions>>

\* index.js:629  saveKV('accounts')
processPaymentSaveAccounts(p) ==
    /\ proc[p].pc = "psp_acc_save"
    /\ kv' = [kv EXCEPT !.accounts = proc[p].buf2]
    /\ credited' = Bump(credited, proc[p].trx)
    /\ Set(p, [proc[p] EXCEPT !.pc = "psp_paid_save", !.buf2 = <<>>,
                              !.buf[proc[p].trx].status = "paid"])
    /\ UNCHANGED <<variant, provider, aired, budget, swept, now, issued, paid, lastFulfilled, recorded, requests, sessions>>

\* index.js:632-635  p.status = 'paid'; saveKV('pending_payments')
processPaymentMarkPaid(p) ==
    /\ proc[p].pc = "psp_paid_save"
    /\ kv' = [kv EXCEPT !.pending_payments = proc[p].buf]
    /\ Set(p, [proc[p] EXCEPT !.pc = "psp_tx_load",
                              !.rec = proc[p].buf[proc[p].trx], !.buf = <<>>])
    /\ UNCHANGED <<variant, provider, aired, budget, swept, now, issued, paid, lastFulfilled, credited, recorded, requests, sessions>>

\* index.js:638  loadKV('transactions')
processPaymentLoadTx(p) ==
    /\ proc[p].pc = "psp_tx_load"
    /\ Set(p, [proc[p] EXCEPT !.pc = "psp_tx_save", !.buf = kv.transactions])
    /\ UNCHANGED <<variant, provider, aired, budget, swept, now, kv, issued, paid, lastFulfilled, credited, recorded, requests, sessions>>

\* index.js:639-650  push the purchase entry; saveKV('transactions')
processPaymentSaveTx(p) ==
    /\ proc[p].pc = "psp_tx_save"
    /\ kv' = [kv EXCEPT !.transactions =
                    pushPurchase(proc[p].buf, proc[p].rec, proc[p].todo)]
    /\ recorded' = Bump(recorded, proc[p].trx)
    /\ Set(p, StoreDone(proc[p], "Fulfilled"))
    /\ UNCHANGED <<variant, provider, aired, budget, swept, now, issued, paid, lastFulfilled, credited, requests, sessions>>

\* a cancel that anyone may make
CancelForbiddenNever(payment, userId) == FALSE

\* index.js:585  p.userId !== userId && cb.from.id.toString() !== env.ADMIN_ID
CancelForbidden(payment, userId) == payment.userId # userId /\ userId # AdminId

\* index.js:579-589  handleCancelPayment: lookup, owner check, delete
storeCancelPayment(p) ==
    /\ proc[p].pc = "cxl_load"
    /\ LET pending == kv.pending_payments
           t == proc[p].trx
       IN Set(p, IF ~Has(pending, t) THEN StoreDone(proc[p], "NotFound")
                 ELSE IF CancelForbidden(pending[t], proc[p].user)
                      THEN StoreDone(proc[p], "Forbidden")
                 ELSE [proc[p] EXCEPT !.pc = "cxl_save", !.buf = Del(pending, t)])
    /\ UNCHANGED <<variant, provider, aired, budget, swept, now, kv, issued, paid, lastFulfilled, credited, recorded, requests, sessions>>

\* index.js:590  saveKV('pending_payments')
storeCancelSave(p) ==
    /\ proc[p].pc = "cxl_save"
    /\ kv' = [kv EXCEPT !.pending_payments = proc[p].buf]
    /\ Set(p, StoreDone(proc[p], "Cancelled"))
    /\ UNCHANGED <<variant, provider, aired, budget, swept, now, issued, paid, lastFulfilled, credited, recorded, requests, sessions>>

\* index.js:836-840  handleWebhook, a status other than success: lookup
handleWebhook(p) ==
    /\ proc[p].pc = "wh_load"
    /\ LET pending == kv.pending_payments
           t == proc[p].trx
       IN Set(p, IF Has(pending, t)
                 THEN [proc[p] EXCEPT !.pc = "wh_save",
                                      !.buf = [pending EXCEPT ![t].status = proc[p].tx]]
                 ELSE StoreDone(proc[p], "Ignored"))
    /\ UNCHANGED <<variant, provider, aired, budget, swept, now, kv, issued, paid, lastFulfilled, credited, recorded, requests, sessions>>

\* index.js:841  saveKV('pending_payments')
handleWebhookSave(p) ==
    /\ proc[p].pc = "wh_save"
    /\ kv' = [kv EXCEPT !.pending_payments = proc[p].buf]
    /\ Set(p, StoreDone(proc[p], "StatusUpdated"))
    /\ UNCHANGED <<variant, provider, aired, budget, swept, now, issued, paid, lastFulfilled, credited, recorded, requests, sessions>>

\* index.js:790-797  handleAdminAddProduct: loadKV('accounts'), the new product
handleAdminAddProduct(p) ==
    /\ proc[p].pc = "add_load"
    /\ \E sku \in Skus :
            Set(p, [proc[p] EXCEPT !.pc = "add_save", !.rec = <<>>,
                                   !.buf2 = Put(kv.accounts, sku, proc[p].rec)])
    /\ UNCHANGED <<variant, provider, aired, budget, swept, now, kv, issued, paid, lastFulfilled, credited, recorded, requests, sessions>>

\* index.js:798  saveKV('accounts')
handleAdminAddProductSave(p) ==
    /\ proc[p].pc = "add_save"
    /\ kv' = [kv EXCEPT !.accounts = proc[p].buf2]
    /\ Set(p, StoreDone(proc[p], "Added"))
    /\ UNCHANGED <<variant, provider, aired, budget, swept, now, issued, paid, lastFulfilled, credited, recorded, requests, sessions>>

\* -------------------------------------------------- shop variant: pure parts

\* part_000:1123  String.prototype.toUpperCase over the letters in use
toUpperCase(str) ==
    LET up == [c \in {"p", "a", "i", "d", "e", "n", "g", "x", "r",
                       "s", "u", "c", "t", "l"} |->
                    CASE c = "p" -> "P" [] c = "a" -> "A" [] c = "i" -> "I"
                      [] c = "d" -> "D" [] c = "e" -> "E" [] c = "n" -> "N"
                      [] c = "g" -> "G" [] c = "x" -> "X" [] c = "r" -> "R"
                      [] c = "s" -> "S" [] c = "u" -> "U" [] c = "c" -> "C"
                      [] c = "t" -> "T" [] c = "l" -> "L"]
    IN [i \in 1..Len(str) |-> IF str[i] \in DOMAIN up THEN up[str[i]] ELSE str[i]]

\* String.prototype.includes
includes(str, sub) ==
    \E i \in 0..(Len(str) - Len(sub)) : SubSeq(str, i + 1, i + Len(sub)) = sub

\* part_000:1123-1125  the reading of the provider's status answer
ShopPaid(statusResp) ==
    LET status == toUpperCase(toString(
                        Or(Or(Or(statusResp.status, statusResp.payment_status),
                              statusResp.result), Str(<<>>))))
    IN \/ includes(status, <<"P", "A", "I", "D">>)
       \/ includes(status, <<"S", "U", "C", "C", "E", "S", "S">>)
       \/ includes(status, <<"S", "E", "T", "T", "L", "E", "D">>)
       \/ statusResp.paid = Bool(TRUE)

\* part_000:883-897  checkPaymentStatus: null on a failed call, else the
\* documented answers PAID | PENDING | EXPIRED in either case
ShopStatusResponses(t) ==
    Answers({NullResponse} \cup
            (IF t \in paid
             THEN {Response(Str(<<"P", "A", "I", "D">>), Undefined),
                   Response(Str(<<"p", "a", "i", "d">>), Undefined)}
             ELSE {Response(Str(<<"P", "E", "N", "D", "I", "N", "G">>), Undefined),
                   Response(Str(<<"E", "X", "P", "I", "R", "E", "D">>), Undefined)}), t)

\* part_000:1013-1016  handleQtyChange: the quantity after a +/- button
shopChangedQty(product, sessQty, delta) ==
    LET q0 == IF sessQty = 0 THEN 1 ELSE sessQty
        q1 == q0 + delta
        q2 == IF q1 < 1 THEN 1 ELSE q1
    IN IF q2 > product.stock THEN product.stock ELSE q2

\* part_000:1040  product.stock || 1
shopBuyAllQty(product) == IF product.stock = 0 THEN 1 ELSE product.stock

\* a delivery from the counter that takes qty whatever the stock is
deliverProductUnclamped(product, qty) ==
    IF Len(product.entries) > 0
    THEN [product |-> [product EXCEPT !.entries = <<>>, !.stock = 0],
          delivered |-> product.entries]
    ELSE [product |-> [product EXCEPT !.stock = product.stock - qty],
          delivered |-> [i \in 1..qty |-> 0]]

\* part_000:815-850  deliverProduct on a loaded product: the product after the
\* delivery and the items delivered
deliverProduct(product, qty) ==
    IF Len(product.entries) > 0
    THEN LET n == IF qty < Len(product.entries) THEN qty ELSE Len(product.entries)
             rest == SubSeq(product.entries, n + 1, Len(product.entries))
         IN [product |-> [product EXCEPT !.entries = rest, !.stock = Len(rest)],
             delivered |-> SubSeq(product.entries, 1, n)]
    ELSE LET reduce == IF qty < product.stock THEN qty ELSE product.stock
             left == product.stock - reduce
         IN [product |-> [product EXCEPT !.stock = IF left > 0 THEN left ELSE 0],
             delivered |-> [i \in 1..reduce |-> 0]]

\* part_000:767-775  addTransaction of the shop: push and keep the last 100
shopAddTransaction(txs, userId, tx) ==
    LET cur == IF Has(txs, userId) THEN txs[userId] ELSE <<>>
        all == Append(cur, tx)
        kept == IF Len(all) > ShopTxCap
                THEN SubSeq(all, Len(all) - ShopTxCap + 1, Len(all)) ELSE all
    IN Put(txs, userId, kept)

\* ------------------------------------------------------- shop variant: steps
ShopPastExpiry(pend, t) == Has(pend, t) /\ now > pend[t].expireAt

\* part_000:1290-1350: a callback arrives and its handler runs up to the first
\* await
ShopReceive(p) ==
    /\ variant = "shop"
    /\ proc[p].pc = "idle"
    /\ \A q \in Procs : q < p => proc[q].pc # "idle"
    /\ requests < budget
    /\ requests' = requests + 1
    /\ \/ \E u \in Users :
            Set(p, [Idle EXCEPT !.pc = "shsel_load", !.op = "select", !.user = u])
       \/ \E u \in Users, delta \in {-1, 1} :
            LET sess == getUserSession(u)
                pr == [Idle EXCEPT !.op = "qty", !.user = u, !.arg = delta]
            IN Set(p, IF HasSession(sess)
                      THEN [pr EXCEPT !.pc = "shqty_load", !.rec = sess]
                      ELSE StoreDone(pr, "NoSession"))
       \/ \E u \in Users :
            LET sess == getUserSession(u)
                pr == [Idle EXCEPT !.op = "buyall", !.user = u]
            IN Set(p, IF HasSession(sess)
                      THEN [pr EXCEPT !.pc = "shbuy_load", !.rec = sess]
                      ELSE StoreDone(pr, "NoSession"))
       \/ \E u \in Users :
            LET sess == getUserSession(u)
                pr == [Idle EXCEPT !.op = "purchase", !.user = u]
            IN Set(p, IF HasSession(sess)
                      THEN [pr EXCEPT !.pc = "start_load", !.rec = sess]
                      ELSE StoreDone(pr, "NoSession"))
       \/ \E u \in Users, t \in 1..issued :
            Set(p, [Idle EXCEPT !.pc = "sc_get", !.op = "check", !.user = u,
                                !.trx = t,
                                !.startExpired = ShopPastExpiry(kv.pending_payments, t)])
    /\ UNCHANGED <<variant, provider, aired, budget, swept, now, kv, issued, paid, lastFulfilled, credited, recorded, sessions>>

\* part_000:983-991  handleCatalogSelect
shopCatalogSelect(p) ==
    /\ proc[p].pc = "shsel_load"
    /\ \/ /\ \E key \in DOMAIN kv.accounts :
                sessions' = Put(sessions, proc[p].user,
                                [action |-> "browsing_product", productKey |-> key,
                                 qty |-> 1])
          /\ Set(p, StoreDone(proc[p], "Selected"))
       \/ /\ Set(p, StoreDone(proc[p], "NotFound"))
          /\ UNCHANGED sessions
    /\ UNCHANGED <<variant, provider, aired, budget, swept, now, kv, issued, paid, lastFulfilled, credited, recorded, requests>>

\* part_000:1009-1018  handleQtyChange after loadDB
shopQtyChange(p) ==
    /\ proc[p].pc = "shqty_load"
    /\ LET sess == proc[p].rec IN
       IF Has(kv.accounts, sess.productKey)
       THEN /\ sessions' = Put(sessions, proc[p].user,
                    [sess EXCEPT !.qty = shopChangedQty(kv.accounts[sess.productKey],
                                                        sess.qty, proc[p].arg)])
            /\ Set(p, StoreDone(proc[p], "Qty"))
       ELSE /\ Set(p, StoreDone(proc[p], "NotFound"))
            /\ UNCHANGED sessions
    /\ UNCHANGED <<variant, provider, aired, budget, swept, now, kv, issued, paid, lastFulfilled, credited, recorded, requests>>

\* part_000:1037-1041  handleBuyAll after loadDB
shopBuyAll(p) ==
    /\ proc[p].pc = "shbuy_load"
    /\ LET sess == proc[p].rec IN
       IF Has(kv.accounts, sess.productKey)
       THEN /\ sessions' = Put(sessions, proc[p].user,
                    [sess EXCEPT !.qty = shopBuyAllQty(kv.accounts[sess.productKey])])
            /\ Set(p, StoreDone(proc[p], "Qty"))
       ELSE /\ Set(p, StoreDone(proc[p], "NotFound"))
            /\ UNCHANGED sessions
    /\ UNCHANGED <<variant, provider, aired, budget, swept, now, kv, issued, paid, lastFulfilled, credited, recorded, requests>>

\* part_000:1060-1064  handlePurchaseStart: product, quantity and total (the
\* stock is not looked at)
handlePurchaseStart(p) ==
    /\ proc[p].pc = "start_load"
    /\ LET sess == proc[p].rec
           qty == purchaseQty(sess)
       IN Set(p, IF ~Has(kv.accounts, sess.productKey) THEN StoreDone(proc[p], "NotFound")
                 ELSE [proc[p] EXCEPT !.pc = "start_qris",
                            !.rec = [userId |-> proc[p].user,
                                     productKey |-> sess.productKey,
                                     qty |-> qty,
                                     amount |-> kv.accounts[sess.productKey].price * qty]])
    /\ UNCHANGED <<variant, provider, aired, budget, swept, now, kv, issued, paid, lastFulfilled, credited, recorded, requests, sessions>>

\* part_000:1067-1090  createQris and the pending record built from its answer
createQris(p) ==
    /\ proc[p].pc = "start_qris"
    /\ \/ /\ Set(p, StoreDone(proc[p], "CreateFailed"))
          /\ UNCHANGED issued
       \/ /\ issued < MaxInvoices
          /\ \E qrisResp \in CreateResponses(issued + 1),
                expiredMinutes \in 1..MaxExpiryMinutes :
                LET r == proc[p].rec
                    \* part_000:1075  qrisResp.paymentId || ... || ('PM' + Date.now())
                    paymentId == IF qrisResp.trxid = 0 THEN LocalId ELSE qrisResp.trxid
                IN /\ issued' = IF qrisResp.trxid = 0 THEN issued ELSE issued + 1
                   /\ Set(p, [proc[p] EXCEPT !.pc = "start_pload", !.trx = paymentId,
                            !.resp = qrisResp,
                            !.rec = [paymentId |-> paymentId, userId |-> r.userId,
                                     productKey |-> r.productKey, qty |-> r.qty,
                                     amount |-> r.amount, createdAt |-> now,
                                     expireAt |-> now + expiredMinutes]])
    /\ UNCHANGED <<variant, provider, aired, budget, swept, now, kv, paid, lastFulfilled, credited, recorded, requests, sessions>>

\* part_000:697  addPendingPayment: loadPendingPayments
addPendingPaymentLoad(p) ==
    /\ proc[p].pc = "start_pload"
    /\ Set(p, [proc[p] EXCEPT !.pc = "start_psave", !.buf = kv.pending_payments])
    /\ UNCHANGED <<variant, provider, aired, budget, swept, now, kv, issued, paid, lastFulfilled, credited, recorded, requests, sessions>>

\* part_000:698-699  addPendingPayment: set and savePendingPayments
addPendingPaymentSave(p) ==
    /\ proc[p].pc = "start_psave"
    /\ kv' = [kv EXCEPT !.pending_payments = Put(proc[p].buf, proc[p].trx, proc[p].rec)]
    /\ Set(p, [proc[p] EXCEPT !.pc = "start_clear", !.buf = <<>>, !.rec = <<>>])
    /\ UNCHANGED <<variant, provider, aired, budget, swept, now, issued, paid, lastFulfilled, credited, recorded, requests, sessions>>

\* part_000:1111  clearUserSession once the QRIS message is sent
shopClearSession(p) ==
    /\ proc[p].pc = "start_clear"
    /\ sessions' = Del(sessions, proc[p].user)
    /\ Set(p, StoreDone(proc[p], "Created"))
    /\ UNCHANGED <<variant, provider, aired, budget, swept, now, kv, issued, paid, lastFulfilled, credited, recorded, requests>>

\* part_000:1117-1118, 706-709  handleCheckPayment: getPendingById
shopCheckPayment(p) ==
    /\ proc[p].pc = "sc_get"
    /\ LET pending == kv.pending_payments
           t == proc[p].trx
       IN Set(p, IF Has(pending, t)
                 THEN [proc[p] EXCEPT !.pc = "sc_status", !.rec = pending[t],
                                      !.who = pending[t].userId]
                 ELSE StoreDone(proc[p], "NotFound"))
    /\ UNCHANGED <<variant, provider, aired, budget, swept, now, kv, issued, paid, lastFulfilled, credited, recorded, requests, sessions>>

\* part_000:1121-1130  checkPaymentStatus and its reading
checkPaymentStatus(p) ==
    /\ proc[p].pc = "sc_status"
    /\ \E statusResp \in ShopStatusResponses(proc[p].trx) :
            Set(p, IF ~statusResp.ok THEN StoreDone(proc[p], "CheckFailed")
                   ELSE IF ~ShopPaid(statusResp) THEN StoreDone(proc[p], "NotYetPaid")
                   ELSE [proc[p] EXCEPT !.pc = "dl_load"])
    /\ UNCHANGED <<variant, provider, aired, budget, swept, now, kv, issued, paid, lastFulfilled, credited, recorded, requests, sessions>>

\* part_000:816-818, 847-849  deliverProduct: loadDB('accounts')
deliverProductLoad(p) ==
    /\ proc[p].pc = "dl_load"
    /\ LET accounts == kv.accounts
           key == proc[p].rec.productKey
       IN Set(p, IF ~Has(accounts, key) THEN [proc[p] EXCEPT !.pc = "stx_load"]
                 ELSE LET d == deliverProduct(accounts[key], proc[p].rec.qty)
                      IN [proc[p] EXCEPT !.pc = "dl_save", !.todo = d.delivered,
                                         !.buf2 = Put(accounts, key, d.product)])
    /\ UNCHANGED <<variant, provider, aired, budget, swept, now, kv, issued, paid, lastFulfilled, credited, recorded, requests, sessions>>

\* part_000:829-831, 838-840  deliverProduct: saveDB('accounts')
deliverProductSave(p) ==
    /\ proc[p].pc = "dl_save"
    /\ kv' = [kv EXCEPT !.accounts = proc[p].buf2]
    /\ credited' = Bump(credited, proc[p].trx)
    /\ Set(p, [proc[p] EXCEPT !.pc = "stx_load", !.buf2 = <<>>])
    /\ UNCHANGED <<variant, provider, aired, budget, swept, now, issued, paid, lastFulfilled, recorded, requests, sessions>>

\* part_000:768  addTransaction: loadDB('transactions')
shopAddTransactionLoad(p) ==
    /\ proc[p].pc = "stx_load"
    /\ Set(p, [proc[p] EXCEPT !.pc = "stx_save", !.buf = kv.transactions])
    /\ UNCHANGED <<variant, provider, aired, budget, swept, now, kv, issued, paid, lastFulfilled, credited, recorded, requests, sessions>>

\* part_000:769-773  addTransaction: push, cap and saveDB
shopAddTransactionSave(p) ==
    /\ proc[p].pc = "stx_save"
    /\ kv' = [kv EXCEPT !.transactions =
                shopAddTransaction(proc[p].buf, proc[p].rec.userId,
                                   [type |-> "purchase", amount |-> proc[p].rec.amount,
                                    productName |-> proc[p].rec.productKey,
                                    status |-> "completed"])]
    /\ recorded' = Bump(recorded, proc[p].trx)
    /\ Set(p, [proc[p] EXCEPT !.pc = "st_load", !.buf = <<>>])
    /\ UNCHANGED <<variant, provider, aired, budget, swept, now, issued, paid, lastFulfilled, credited, requests, sessions>>

\* part_000:724  updateStatistics: loadStatistics
updateStatisticsLoad(p) ==
    /\ proc[p].pc = "st_load"
    /\ Set(p, [proc[p] EXCEPT !.pc = "st_save", !.arg = kv.statistics])
    /\ UNCHANGED <<variant, provider, aired, budget, swept, now, kv, issued, paid, lastFulfilled, credited, recorded, requests, sessions>>

\* part_000:728-745  updateStatistics: totalTransactions++ and saveStatistics
updateStatisticsSave(p) ==
    /\ proc[p].pc = "st_save"
    /\ kv' = [kv EXCEPT !.statistics = proc[p].arg + 1]
    /\ Set(p, [proc[p] EXCEPT !.pc = "srm_load", !.arg = 0])
    /\ UNCHANGED <<variant, provider, aired, budget, swept, now, issued, paid, lastFulfilled, credited, recorded, requests, sessions>>

\* part_000:702-703  removePendingPayment of the shop: load and delete
shopRemovePendingLoad(p) ==
    /\ proc[p].pc = "srm_load"
    /\ Set(p, [proc[p] EXCEPT !.pc = "srm_save",
                              !.buf = Del(kv.pending_payments, proc[p].trx)])
    /\ UNCHANGED <<variant, provider, aired, budget, swept, now, kv, issued, paid, lastFulfilled, credited, recorded, requests, sessions>>

\* part_000:704  removePendingPayment of the shop: savePendingPayments
shopRemovePendingSave(p) ==
    /\ proc[p].pc = "srm_save"
    /\ kv' = [kv EXCEPT !.pending_payments = proc[p].buf]
    /\ Set(p, StoreDone(proc[p], "Fulfilled"))
    /\ UNCHANGED <<variant, provider, aired, budget, swept, now, issued, paid, lastFulfilled, credited, recorded, requests, sessions>>

\* ------------------------------------------- the reading of a status answer
\* part_000:405, part_000:1121-1127, index.js:566  the worker reads the
\* answer it holds and takes the invoice as paid or not
ReadResponse(p) ==
    /\ proc[p].pc = "read"
    /\ LET resp == proc[p].rec
           isPaid == CASE variant = "deposit" -> DepositPaid(resp)
                       [] variant = "store" -> VerifyPaid(resp)
                       [] variant = "shop" -> resp.ok /\ ShopPaid(resp)
       IN Set(p, [proc[p] EXCEPT !.pc = "read_done",
                                 !.out = IF isPaid THEN "Paid" ELSE "NotPaid"])
    /\ UNCHANGED <<variant, provider, aired, budget, swept, now, kv, issued, paid, lastFulfilled, credited, recorded, requests, sessions>>

\* ------------------------------------------------------------ environment
\* time passes
Tick ==
    /\ now < MaxTime
    /\ now' = now + 1
    /\ UNCHANGED <<variant, provider, aired, budget, swept, kv, issued, paid, proc, lastFulfilled, credited, recorded, requests, sessions>>

\* the payer pays an issued invoice at the provider
Pay ==
    /\ \E t \in (1..issued) \ paid : paid' = paid \cup {t}
    /\ UNCHANGED <<variant, provider, aired, budget, swept, now, kv, issued, proc, lastFulfilled, credited, recorded, requests, sessions>>

\* ------------------------------------------------- store variant: broadcast
\* the 'broadcast' value while the key is not stored: every field undefined
\* (-1 stands for a missing or null time or hour)
NoBroadcast ==
    [enabled |-> FALSE, message |-> FALSE, lastSentAt |-> -1, sentHour |-> -1,
     sentThisHour |-> 0]

\* no broadcast has been sent
NeverAired == [last |-> -1, inHour |-> 0]

\* index.js:876-877  now.getUTCHours(), the clock counting minutes from a midnight
getUTCHours(t) == (t \div MinutesPerHour) % HoursPerDay

\* index.js:878-882  reset count if hour changed: !sentHour holds for a missing
\* sentHour and for hour 0
resetIfHourChanged(broadcast, currentHour) ==
    IF broadcast.sentHour <= 0 \/ broadcast.sentHour # currentHour
    THEN [broadcast EXCEPT !.sentHour = currentHour, !.sentThisHour = 0]
    ELSE broadcast

\* a limit by the hour's counter alone
canSendByCounter(broadcast, t) == broadcast.sentThisHour < MaxPerHour

\* index.js:884-886  canSend
canSend(broadcast, t) ==
    /\ broadcast.sentThisHour < MaxPerHour
    /\ broadcast.lastSentAt = -1 \/ t - broadcast.lastSentAt >= MinGapMinutes

\* index.js:848-867  handleSetBroadcast by the admin: enabled and message
handleSetBroadcast ==
    /\ variant = "store"
    /\ \E enabled \in BOOLEAN, message \in BOOLEAN :
            kv' = [kv EXCEPT !.broadcast.enabled = enabled,
                             !.broadcast.message = @ \/ message]
    /\ UNCHANGED <<variant, provider, aired, budget, swept, now, issued, paid, proc, lastFulfilled, credited, recorded, requests, sessions>>

\* index.js:869-901  handleCron, called at any time t from now on; invocations
\* do not overlap, so the handler is one step
handleCron ==
    /\ variant = "store"
    /\ \E t \in now..MaxCronTime :
            /\ now' = t
            /\ LET loaded == kv.broadcast
                   broadcast == resetIfHourChanged(loaded, getUTCHours(t))
               IN IF loaded.enabled /\ loaded.message /\ canSend(broadcast, t)
                  THEN /\ kv' = [kv EXCEPT !.broadcast =
                                    [broadcast EXCEPT !.lastSentAt = t,
                                                      !.sentThisHour = @ + 1]]
                       /\ aired' = [last |-> t,
                                    inHour |-> IF /\ aired.last # -1
                                                  /\ aired.last \div MinutesPerHour
                                                        = t \div MinutesPerHour
                                               THEN aired.inHour + 1 ELSE 1]
                  ELSE UNCHANGED <<kv, aired>>
    /\ UNCHANGED <<variant, provider, budget, swept, issued, paid, proc, lastFulfilled, credited, recorded, requests, sessions>>

\* --------------------------------------------------------- specifications
EmptyKV ==
    [pending_payments |-> EmptyObj, users |-> EmptyObj,
     transactions |-> EmptyObj, accounts |-> EmptyObj,
     statistics |-> 0, reward_settings |-> RewardSettings,
     broadcast |-> NoBroadcast]

InitCommon ==
    /\ now = 0
    /\ swept = {}
    /\ aired = NeverAired
    /\ issued = 0
    /\ paid = {}
    /\ proc = [p \in Procs |-> Idle]
    /\ lastFulfilled = 0
    /\ credited = [t \in TrxIds |-> 0]
    /\ recorded = [t \in TrxIds |-> 0]
    /\ requests = 0
    /\ sessions = EmptyObj

DepositStart == variant = "deposit" /\ kv = EmptyKV

InitDeposit ==
    /\ DepositStart
    /\ budget = MaxRequests
    /\ provider = "documented"
    /\ InitCommon

\* the store starts with the catalog the admin has loaded
StoreCatalog ==
    /\ variant = "store"
    /\ kv = [EmptyKV EXCEPT !.accounts = [sku \in Skus |-> newProduct(InitialList)]]

InitStore ==
    StoreCatalog /\ budget = MaxStoreRequests /\ provider = "documented" /\ InitCommon

DepositHandle(p) ==
    \/ cleanupExpiredPayments(p)
    \/ routeUpdate(p)
    \/ removePendingPaymentLoad(p)
    \/ removePendingPaymentSave(p)
    \/ handleDepositMessage(p)
    \/ createQrisAndConfirm(p)
    \/ savePendingPaymentLoad(p)
    \/ savePendingPaymentSave(p)
    \/ sendTelegramPhoto(p)
    \/ addTransactionLoad(p)
    \/ addTransactionSave(p)
    \/ handleConfirmPayment(p)
    \/ checkPayment(p)
    \/ processDepositLoad(p)
    \/ processDepositWithBonus(p)
    \/ handleCancelPayment(p)
    \/ Respond(p)

DepositStep(p) == ReceiveUpdate(p) \/ DepositHandle(p)

NextDeposit == (\E p \in Procs : DepositStep(p)) \/ Tick \/ Pay

SpecDeposit == InitDeposit /\ [][NextDeposit]_vars

\* the shop starts with a catalog of pre-made entries
ShopCatalog ==
    /\ variant = "shop"
    /\ kv = [EmptyKV EXCEPT !.accounts =
                [sku \in Skus |-> [title |-> "Produk", price |-> ProductPrice,
                                   entries |-> InitialList, stock |-> Len(InitialList)]]]

InitShop ==
    ShopCatalog /\ budget = MaxStoreRequests /\ provider = "documented" /\ InitCommon

StoreStep(p) ==
    \/ StoreReceive(p)
    \/ handleCatalogSelect(p)
    \/ handleQtyChange(p)
    \/ handleBuyAll(p)
    \/ handlePurchaseConfirm(p)
    \/ createInvoice(p)
    \/ storePendingLoad(p)
    \/ storePendingSave(p)
    \/ purchaseClearSession(p)
    \/ handleCheckPayment(p)
    \/ verifyInvoiceStatus(p)
    \/ processSuccessfulPayment(p)
    \/ processPaymentAccounts(p)
    \/ processPaymentFailed(p)
    \/ processPaymentSaveAccounts(p)
    \/ processPaymentMarkPaid(p)
    \/ processPaymentLoadTx(p)
    \/ processPaymentSaveTx(p)
    \/ storeCancelPayment(p)
    \/ storeCancelSave(p)
    \/ handleWebhook(p)
    \/ handleWebhookSave(p)
    \/ handleAdminAddProduct(p)
    \/ handleAdminAddProductSave(p)
    \/ Respond(p)

ShopStep(p) ==
    \/ ShopReceive(p)
    \/ shopCatalogSelect(p)
    \/ shopQtyChange(p)
    \/ shopBuyAll(p)
    \/ handlePurchaseStart(p)
    \/ createQris(p)
    \/ addPendingPaymentLoad(p)
    \/ addPendingPaymentSave(p)
    \/ shopClearSession(p)
    \/ shopCheckPayment(p)
    \/ checkPaymentStatus(p)
    \/ deliverProductLoad(p)
    \/ deliverProductSave(p)
    \/ shopAddTransactionLoad(p)
    \/ shopAddTransactionSave(p)
    \/ updateStatisticsLoad(p)
    \/ updateStatisticsSave(p)
    \/ shopRemovePendingLoad(p)
    \/ shopRemovePendingSave(p)
    \/ Respond(p)

NextShop == (\E p \in Procs : ShopStep(p)) \/ Tick \/ Pay

SpecShop == InitShop /\ [][NextShop]_vars

NextStore == (\E p \in Procs : StoreStep(p)) \/ Tick \/ Pay

SpecStore == InitStore /\ [][NextStore]_vars

\* the two shops, invocations overlapping
InitPurchase == InitStore \/ InitShop

NextPurchase == (\E p \in Procs : StoreStep(p) \/ ShopStep(p)) \/ Tick \/ Pay

SpecPurchase == InitPurchase /\ [][NextPurchase]_vars

\* the deposit bot, one invocation at a time, under any stored reward settings
InitBonus ==
    /\ variant = "deposit"
    /\ \E settings \in RewardSettingsInputs :
            kv = [EmptyKV EXCEPT !.reward_settings = settings]
    /\ budget = MaxRequests
    /\ provider = "documented"
    /\ InitCommon

NextBonus == DepositStep(1) \/ Tick \/ Pay

SpecBonus == InitBonus /\ [][NextBonus]_vars

\* a worker holding any answer of the status endpoint for invoice 1
InitReading ==
    /\ variant \in {"deposit", "store", "shop"}
    /\ kv = EmptyKV
    /\ budget = 0
    /\ provider = "documented"
    /\ now = 0
    /\ swept = {}
    /\ aired = NeverAired
    /\ issued = 1
    /\ paid = {}
    /\ \E resp \in RawResponses :
            proc = [p \in Procs |->
                        IF p = 1 THEN [Idle EXCEPT !.pc = "read", !.op = "check",
                                                   !.trx = 1, !.rec = resp]
                        ELSE Idle]
    /\ lastFulfilled = 0
    /\ credited = [t \in TrxIds |-> 0]
    /\ recorded = [t \in TrxIds |-> 0]
    /\ requests = 0
    /\ sessions = EmptyObj

NextReading == \E p \in Procs : ReadResponse(p)

SpecReading == InitReading /\ [][NextReading]_vars

\* the two shops, one invocation at a time, over a longer run
InitLong ==
    /\ StoreCatalog \/ ShopCatalog
    /\ budget = MaxLongRequests
    /\ provider = "documented"
    /\ InitCommon

NextLong == StoreStep(1) \/ ShopStep(1) \/ Tick \/ Pay

SpecLong == InitLong /\ [][NextLong]_vars

\* one invocation at a time, whichever worker is deployed
InitSeq == InitDeposit \/ InitStore \/ InitShop

NextSeq == DepositStep(1) \/ StoreStep(1) \/ ShopStep(1) \/ Tick \/ Pay

SpecSeq == InitSeq /\ [][NextSeq]_vars

\* the deposit bot, one invocation at a time, with any text for a nominal
InitText ==
    /\ DepositStart
    /\ budget = MaxRequests
    /\ provider = "documented"
    /\ InitCommon

NextText == ReceiveText(1, ParseTexts) \/ DepositHandle(1) \/ Tick \/ Pay

SpecText == InitText /\ [][NextText]_vars

\* addTransaction on its own: call after call for either user, the amount of
\* an entry being the number of the call among the user's calls
CallAddTransaction ==
    /\ requests < budget
    /\ requests' = requests + 1
    /\ \E u \in Users :
            LET h == IF Has(kv.transactions, u) THEN kv.transactions[u] ELSE <<>>
                k == IF h = <<>> THEN 1 ELSE h[Len(h)].amount + 1
            IN kv' = [kv EXCEPT !.transactions =
                        IF variant = "shop"
                        THEN shopAddTransaction(kv.transactions, u,
                                [type |-> "purchase", amount |-> k,
                                 productName |-> "sku", status |-> "completed"])
                        ELSE addTransaction(kv.transactions, u,
                                [type |-> "deposit", amount |-> k,
                                 productName |-> "Deposit"])]
    /\ UNCHANGED <<variant, provider, aired, budget, swept, now, issued, paid, proc, lastFulfilled, credited, recorded, sessions>>

InitHistory ==
    /\ variant \in {"deposit", "shop"}
    /\ kv = EmptyKV
    /\ budget = MaxHistoryCalls
    /\ provider = "documented"
    /\ InitCommon

NextHistory == CallAddTransaction

SpecHistory == InitHistory /\ [][NextHistory]_vars

\* the shops with one invoice created and paid before the run: user 1's
\* purchase of one item; the invocations overlap
PaidBefore ==
    IF variant = "store"
    THEN [userId |-> 1, productSku |-> "sku", qty |-> 1, amount |-> ProductPrice,
          createdAt |-> 0, expiresAt |-> MaxExpiryMinutes, status |-> "pending"]
    ELSE [paymentId |-> 1, userId |-> 1, productKey |-> "sku", qty |-> 1,
          amount |-> ProductPrice, createdAt |-> 0, expireAt |-> MaxExpiryMinutes]

InitPair ==
    /\ variant \in {"store", "shop"}
    /\ kv = [EmptyKV EXCEPT
                !.pending_payments = Put(EmptyObj, 1, PaidBefore),
                !.accounts =
                    IF variant = "store"
                    THEN [sku \in Skus |-> newProduct(InitialList)]
                    ELSE [sku \in Skus |->
                            [title |-> "Produk", price |-> ProductPrice,
                             entries |-> InitialList, stock |-> Len(InitialList)]]]
    /\ budget = MaxStoreRequests
    /\ provider = "documented"
    /\ now = 0
    /\ swept = {}
    /\ aired = NeverAired
    /\ issued = 1
    /\ paid = {1}
    /\ proc = [p \in Procs |-> Idle]
    /\ lastFulfilled = 0
    /\ credited = [t \in TrxIds |-> 0]
    /\ recorded = [t \in TrxIds |-> 0]
    /\ requests = 0
    /\ sessions = EmptyObj

NextPair == (\E p \in Procs : StoreStep(p) \/ ShopStep(p)) \/ Tick \/ Pay

SpecPair == InitPair /\ [][NextPair]_vars


\* the invocation stops between two writes of processSuccessfulPayment (the
\* runtime ends it, or a Telegram or KV call outside a try block throws)
processPaymentStops(p) ==
    /\ proc[p].pc \in {"psp_paid_save", "psp_tx_load", "psp_tx_save"}
    /\ Set(p, Idle)
    /\ UNCHANGED <<variant, provider, aired, budget, swept, now, kv, issued, paid, lastFulfilled, credited, recorded, requests, sessions>>

\* index.js:44-52  BOT_DB.put throws: saveKV logs, returns false, and
\* processSuccessfulPayment (index.js:629, 635, 650) goes on without the write
saveKVFails(p) ==
    /\ proc[p].pc \in {"psp_acc_save", "psp_paid_save", "psp_tx_save"}
    /\ Set(p, CASE proc[p].pc = "psp_acc_save" ->
                    [proc[p] EXCEPT !.pc = "psp_paid_save", !.buf2 = <<>>,
                                    !.buf[proc[p].trx].status = "paid"]
                [] proc[p].pc = "psp_paid_save" ->
                    [proc[p] EXCEPT !.pc = "psp_tx_load",
                                    !.rec = proc[p].buf[proc[p].trx], !.buf = <<>>]
                [] OTHER -> StoreDone(proc[p], "Fulfilled"))
    /\ UNCHANGED <<variant, provider, aired, budget, swept, now, kv, issued, paid, lastFulfilled, credited, recorded, requests, sessions>>

\* the store, one invocation at a time, where an invocation may stop and a
\* write may fail inside processSuccessfulPayment
NextCrash ==
    StoreStep(1) \/ processPaymentStops(1) \/ saveKVFails(1) \/ Tick \/ Pay

SpecCrash == InitStore /\ [][NextCrash]_vars

\* the shop, one invocation at a time, selling a counter-backed product: no
\* entries, a stock number
InitCounter ==
    /\ variant = "shop"
    /\ \E stock \in 0..MaxStock :
            kv = [EmptyKV EXCEPT !.accounts =
                    [sku \in Skus |-> [title |-> "Produk", price |-> ProductPrice,
                                       entries |-> <<>>, stock |-> stock]]]
    /\ budget = MaxStoreRequests
    /\ provider = "documented"
    /\ InitCommon

NextCounter == ShopStep(1) \/ Tick \/ Pay

SpecCounter == InitCounter /\ [][NextCounter]_vars

\* the store, one invocation at a time, whose webhook endpoint is open to any
\* sender
NextWebhook == StoreStep(1) \/ WebhookReceive(1) \/ Tick \/ Pay

SpecWebhook == InitStore /\ [][NextWebhook]_vars

\* the store's broadcast: the admin's settings and the scheduler's calls
NextCron == handleCron \/ handleSetBroadcast

SpecCron == InitStore /\ [][NextCron]_vars
\* the deposit bot with user 1's deposit of 10000 created and paid before the
\* run: its pending record and its 'deposit_pending' history entry are stored
PaidDeposit ==
    [nominal |-> 10000, finalNominal |-> 10000 + 1 + 144, transactionId |-> 1,
     timestamp |-> 0, status |-> "pending", messageId |-> 0,
     expired_minutes |-> MaxExpiryMinutes, fee |-> 144]

InitTopUp ==
    /\ variant = "deposit"
    /\ kv = [EmptyKV EXCEPT
                !.pending_payments = Put(EmptyObj, 1, PaidDeposit),
                !.transactions =
                    addTransaction(EmptyObj, 1,
                                   [type |-> "deposit_pending", amount |-> 10000,
                                    productName |-> "Deposit"])]
    /\ budget = MaxRequests
    /\ provider = "documented"
    /\ now = 0
    /\ swept = {}
    /\ aired = NeverAired
    /\ issued = 1
    /\ paid = {1}
    /\ proc = [p \in Procs |-> Idle]
    /\ lastFulfilled = 0
    /\ credited = [t \in TrxIds |-> 0]
    /\ recorded = [t \in TrxIds |-> 0]
    /\ requests = 0
    /\ sessions = EmptyObj

SpecTopUp == InitTopUp /\ [][NextDeposit]_vars

\* the push of the store's purchase entry on its own: purchase after purchase
\* of one item by either user
CallPushPurchase ==
    /\ requests < budget
    /\ requests' = requests + 1
    /\ \E u \in Users, sku \in Skus :
            kv' = [kv EXCEPT !.transactions =
                        pushPurchase(kv.transactions,
                                     [userId |-> u, amount |-> ProductPrice,
                                      productSku |-> sku, qty |-> 1],
                                     <<1>>)]
    /\ UNCHANGED <<variant, provider, aired, budget, swept, now, issued, paid, proc, lastFulfilled, credited, recorded, sessions>>

InitPush ==
    /\ StoreCatalog
    /\ budget = MaxPushCalls
    /\ provider = "documented"
    /\ InitCommon

NextPush == CallPushPurchase

SpecPush == InitPush /\ [][NextPush]_vars

\* one invocation at a time, whichever worker is deployed, with one endpoint
\* of the provider not held to its documentation
InitUnknown ==
    /\ DepositStart \/ StoreCatalog \/ ShopCatalog
    /\ budget = MaxStoreRequests
    /\ provider \in {"status", "create"}
    /\ InitCommon

SpecUnknown == InitUnknown /\ [][NextSeq]_vars

\* ---------------------------------------------------------------- properties
Pending == kv.pending_payments

\* an invocation that tries to fulfil an invoice: the confirm button of the
\* deposit bot, the check button of the shops, a success webhook
IsConfirm(pr) ==
    pr.op \in {"confirm", "check"} \/ (pr.op = "webhook" /\ WebhookSuccess(pr.tx))

\* what a fulfilment touches: inventory, balances, histories
Ledger == <<kv.accounts, kv.users, kv.transactions, credited, recorded>>

\* the sum of f over a finite set
RECURSIVE Sum(_, _)
Sum(f, S) ==
    IF S = {} THEN 0
    ELSE LET x == CHOOSE y \in S : TRUE IN f[x] + Sum(f, S \ {x})

\* entries of one type in all the histories
Entries(type) ==
    LET tx == kv.transactions
        n == [u \in DOMAIN tx |->
                Cardinality({i \in 1..Len(tx[u]) : tx[u][i].type = type})]
    IN Sum(n, DOMAIN tx)

\* the balances added up
TotalSaldo ==
    Sum([u \in DOMAIN kv.users |-> kv.users[u].saldo], DOMAIN kv.users)

\* the largest credit one deposit can bring: nominal + bonus
MaxCredit ==
    LET c == {n + calculateDepositBonus(n) : n \in DepositInputs}
    IN CHOOSE x \in c : \A y \in c : y <= x

\* C1: in the deposit bot, however the owner's handleConfirmPayment invocations
\* interleave, an invoice the provider reports paid is credited once and
\* recorded once: the balances never hold more than one nominal+bonus per paid
\* invoice, and the histories never hold more 'deposit' entries than there are
\* paid invoices.
C1_DepositCreditedOnce ==
    variant = "deposit" =>
        /\ TotalSaldo <= Cardinality(paid) * MaxCredit
        /\ Entries("deposit") <= Cardinality(paid)

\* C2: in the store, however a success webhook and the check button interleave,
\* a paid purchase is fulfilled once: the histories never hold more purchase
\* entries than there are paid invoices.
C2_PurchaseDeliveredOnce ==
    variant = "store" => ~(Entries("purchase") > Cardinality(paid))

\* C3: when a confirmation runs directly after the invocation that fulfilled
\* the same invoice, with no invocation in between and none overlapping, no
\* step taken while it runs changes inventory, balances or histories.
C3_SecondConfirmChangesNothing ==
    [][\A p \in Procs :
          (/\ IsConfirm(proc[p])
           /\ proc[p].pc # "idle"
           /\ lastFulfilled # 0
           /\ lastFulfilled = proc[p].trx) => Ledger' = Ledger]_vars

\* a second confirmation of the invoice just fulfilled has run to its end
C3_Witness ==
    \E p \in Procs :
        /\ IsConfirm(proc[p])
        /\ proc[p].pc = "done"
        /\ proc[p].out = "AlreadyProcessed"
        /\ lastFulfilled = proc[p].trx
        /\ credited[proc[p].trx] = 1

\* a confirm invocation of the deposit bot that is past its expiry check: at
\* the status call, crediting, recording, or through with either
PastExpiryCheck(pr) ==
    \/ pr.pc \in {"conf_fetch", "users_load", "users_save"}
    \/ pr.ret \in {"bonus", "remove", "fulfil"}
    \/ pr.out \in {"Fulfilled", "NotYetPaid"}

\* C4 as stated: a confirm that starts when the user's pending deposit is
\* expired never asks the provider and never credits, and ends Expired (it
\* removed the record) or NotFound (it found none).
C4_ExpiredOrNotFound ==
    \A p \in Procs :
        (proc[p].op = "confirm" /\ proc[p].startExpired) =>
            /\ ~PastExpiryCheck(proc[p])
            /\ proc[p].pc = "done" => proc[p].out \in {"Expired", "NotFound"}

\* C4: a confirm that starts when the user's pending deposit is expired never
\* asks the provider and never credits; it ends Expired (it removed the
\* record), NotFound (it found none), or Mismatch (it found a newer invoice
\* under the user's key and left it alone).
C4_ExpiredNeverCredits ==
    \A p \in Procs :
        (proc[p].op = "confirm" /\ proc[p].startExpired) =>
            /\ ~PastExpiryCheck(proc[p])
            /\ proc[p].pc = "done" =>
                    proc[p].out \in {"Expired", "NotFound", "Mismatch"}

\* a confirm entered its handler with the record expired and paid, and removed it
C4_Witness ==
    \E p \in Procs :
        /\ proc[p].op = "confirm"
        /\ proc[p].startExpired
        /\ proc[p].trx \in paid
        /\ proc[p].pc = "done"
        /\ proc[p].out = "Expired"

\* C5: a check of a purchase that arrives after the invoice's expiry time has
\* passed delivers nothing.
C5_NoDeliveryAfterExpiry ==
    \A p \in Procs :
        (proc[p].op = "check" /\ proc[p].startExpired) =>
            ~(proc[p].pc = "done" /\ proc[p].out = "Fulfilled")

\* C6: a record whose status is paid keeps that status for as long as it exists.
C6_StatusMonotonic ==
    [][variant = "store" =>
        \A t \in DOMAIN Pending \cap DOMAIN Pending' :
            Pending[t].status = "paid" => Pending'[t].status = "paid"]_vars

\* C7: no confirmation goes on to pop inventory for a record whose status is
\* not pending (invocations run one at a time: the status it meets is the one
\* left by the invocations before it).
C7_NoOpOnceNotPending ==
    [][\A p \in Procs :
          (/\ proc[p].pc = "psp_accounts"
           /\ proc'[p].pc = "psp_acc_save"
           /\ Has(Pending, proc[p].trx)) =>
                Pending[proc[p].trx].status = "pending"]_vars

\* an invocation that is writing a fulfilment (inventory, status, history) or
\* has written it
Fulfilling(pr) ==
    \/ pr.pc \in {"psp_acc_save", "psp_paid_save", "psp_tx_load", "psp_tx_save"}
    \/ pr.pc \in {"dl_save", "stx_load", "stx_save", "st_load", "st_save",
                  "srm_load", "srm_save"}
    \/ pr.out = "Fulfilled"

\* C8: a check pressed by a user other than the record's owner fulfils nothing.
C8_NonOwnerRejected ==
    \A p \in Procs :
        (/\ proc[p].op = "check"
         /\ proc[p].who # 0
         /\ proc[p].who # proc[p].user) => ~Fulfilling(proc[p])

\* C9: a pending deposit that is stored under a user's key is never replaced
\* by the record of another invoice.
C9_NoSilentOverwrite ==
    [][variant = "deposit" =>
        \A u \in DOMAIN Pending \cap DOMAIN Pending' :
            Pending'[u].transactionId = Pending[u].transactionId]_vars

\* the step in which the sweep of invocation p writes pending_payments
SweepSaves(p) ==
    /\ proc[p].pc = "rm_save"
    /\ proc[p].ret = "sweep"
    /\ proc'[p] # proc[p]

\* C10: the write of a sweep drops only records that are expired, and changes
\* no record that stays.
C10_SweepDropsOnlyExpired ==
    [][\A p \in Procs :
          SweepSaves(p) =>
            \A u \in DOMAIN Pending :
                IF u \in DOMAIN Pending'
                THEN Pending'[u] = Pending[u]
                ELSE IsExpired(Pending[u], now)]_vars

\* C11: when a sweep has removed a deposit's record as expired before the
\* confirmation of that deposit commits, the confirmation credits nothing:
\* no deposit is both swept and then credited.
C11_SweptNeverCredited ==
    [][\A t \in TrxIds : t \in swept => credited'[t] = credited[t]]_vars

\* the items a list-backed product holds: product.list in the store,
\* product.entries in the shop
Inventory(product) ==
    IF "list" \in DOMAIN product THEN product.list ELSE product.entries

\* C12: in every reachable state the stock of a list-backed product equals the
\* number of items in its list, whatever admin add-product, purchase requests
\* and fulfilments have run.
C12_StockIsListLength ==
    \A sku \in DOMAIN kv.accounts :
        kv.accounts[sku].stock = Len(Inventory(kv.accounts[sku]))

\* a fulfilment has taken one item of two from a product's list
C12_Witness ==
    \E sku \in DOMAIN kv.accounts, t \in TrxIds :
        /\ credited[t] > 0
        /\ Len(Inventory(kv.accounts[sku])) = Len(InitialList) - 1

\* the product a pending purchase is for: productSku in the store, productKey
\* in the shop
ProductOf(rec) ==
    IF "productSku" \in DOMAIN rec THEN rec.productSku ELSE rec.productKey

\* a pending purchase not yet fulfilled: the store keeps its records and marks
\* them, the shop removes a record once it has delivered
Unfulfilled(rec) == "status" \in DOMAIN rec => rec.status = "pending"

\* the quantities of the unfulfilled pending purchases of a product, added up
PendingQty(pend, sku) ==
    Sum([t \in DOMAIN pend |->
            IF ProductOf(pend[t]) = sku /\ Unfulfilled(pend[t]) THEN pend[t].qty ELSE 0],
        DOMAIN pend)

\* C13: while a product still holds its list of two items, a purchase request
\* never stores a pending record that takes the quantities of the product's
\* unfulfilled pending purchases beyond the two items: with one purchase of
\* quantity 2 pending, a second purchase of quantity 2 is rejected.
C13_PendingWithinInventory ==
    [][\A t \in TrxIds :
            (/\ ~Has(Pending, t)
             /\ Has(Pending', t)
             /\ Inventory(kv.accounts[ProductOf(Pending'[t])]) = InitialList)
            => PendingQty(Pending', ProductOf(Pending'[t])) <= Len(InitialList)]_vars

\* C14: a purchase request goes on to the payment provider only when the
\* quantity it asks for is within the product's inventory at that moment;
\* with a larger quantity it ends InsufficientStock before the provider is
\* contacted, whatever quantity the session has reached.
C14_ProviderOnlyWithinStock ==
    [][\A p \in Procs :
            (/\ proc[p].pc \in {"pur_load", "start_load"}
             /\ proc'[p].pc \in {"pur_invoice", "start_qris"})
            => proc'[p].rec.qty <=
                    Len(Inventory(kv.accounts[ProductOf(proc'[p].rec)]))]_vars

\* C15: a fulfilment delivers exactly the quantity paid for or nothing: the
\* step of a fulfilment that writes the inventory takes qty items from the
\* product's list or none, and a purchase transaction is only written for an
\* invoice whose qty items were all delivered.
C15_DeliversAllOrNothing ==
    [][\A p \in Procs :
            LET t == proc[p].trx IN
            (t \in TrxIds /\ Has(Pending, t) /\ proc'[p] # proc[p])
            => LET sku == ProductOf(Pending[t])
                   taken == Len(Inventory(kv.accounts[sku]))
                                - Len(Inventory(kv.accounts'[sku]))
               IN /\ credited'[t] # credited[t] => taken \in {0, Pending[t].qty}
                  /\ recorded'[t] # recorded[t] => Len(proc[p].todo) = Pending[t].qty]_vars

\* a user's balance: 0 until the user has an entry
Saldo(users, u) == IF Has(users, u) THEN users[u].saldo ELSE 0

\* the smaller of two numbers
Min(a, b) == IF a < b THEN a ELSE b

\* the bonus a deposit of nominal is said to bring under the settings
ClaimedBonus(settings, nominal) ==
    IF ~settings.enabled \/ ~settings.depositBonus.enabled
            \/ nominal < settings.depositBonus.minAmount
    THEN 0
    ELSE Min((nominal * settings.depositBonus.percentage) \div 100,
             settings.depositBonus.maxBonus)

\* what the fulfilment of user u's pending deposit is said to add to the balance
ClaimedCredit(u) ==
    Pending[u].nominal + ClaimedBonus(kv.reward_settings, Pending[u].nominal)

\* C16: the fulfilment of a deposit raises the user's balance by exactly
\* nominal + bonus, nominal being the amount the user typed (not the amount of
\* the invoice) and bonus 0 when rewards or the deposit bonus are disabled or
\* nominal is below minAmount, else floor(nominal * percentage / 100) capped at
\* maxBonus; the balance changes in no other step.
C16_CreditIsNominalPlusBonus ==
    [][/\ \A u \in Users :
            \/ Saldo(kv.users', u) = Saldo(kv.users, u)
            \/ /\ Has(Pending, u)
               /\ Saldo(kv.users', u) - Saldo(kv.users, u) = ClaimedCredit(u)
       /\ \A t \in TrxIds :
            credited'[t] # credited[t]
            => \E u \in Users :
                    /\ Has(Pending, u)
                    /\ Pending[u].transactionId = t
                    /\ Saldo(kv.users', u) - Saldo(kv.users, u) = ClaimedCredit(u)]_vars

\* a deposit of 10000 has been fulfilled under the default settings: the
\* balance is 10500
C16_Witness ==
    \E u \in DOMAIN kv.users :
        /\ kv.users[u].saldo = 10500
        /\ kv.reward_settings = RewardSettings
        /\ \E t \in TrxIds : credited[t] = 1

\* the amounts of the 'deposit' and 'bonus' entries of user u's history, added up
DepositedAmount(u) ==
    LET h == IF Has(kv.transactions, u) THEN kv.transactions[u] ELSE <<>>
    IN Sum([i \in 1..Len(h) |-> IF h[i].type \in {"deposit", "bonus"}
                                THEN h[i].amount ELSE 0],
           1..Len(h))

\* no invocation is in flight
AtRest == \A p \in Procs : proc[p].pc = "idle"

\* C17: every deposit fulfilment records one 'deposit' entry of amount nominal
\* and a 'bonus' entry of amount bonus exactly when bonus > 0, so that, once
\* the invocations have returned, a user's balance equals the sum of the
\* amounts of the 'deposit' and 'bonus' entries of the user's history.
C17_BalanceIsHistorySum ==
    AtRest => \A u \in Users : Saldo(kv.users, u) = DepositedAmount(u)

\* invocation p is inside a cancel handler (the sweep that the deposit bot's
\* router runs first is over)
InCancel(p) ==
    /\ proc[p].op = "cancel"
    /\ \/ proc[p].pc \in {"cancel_get", "cxl_load", "cxl_save"}
       \/ proc[p].pc \in {"rm_load", "rm_save"} /\ proc[p].ret = "cancel"

\* the key of the record a cancel is for: the invoice in the store, the
\* caller's own id in the deposit bot
CancelKey(p) == IF variant = "store" THEN proc[p].trx ELSE proc[p].user

\* the caller of a cancel is the owner of the record or the admin
OwnerOrAdmin(p) ==
    \/ proc[p].user = AdminId
    \/ IF variant = "store" THEN Pending[CancelKey(p)].userId = proc[p].user
       ELSE CancelKey(p) = proc[p].user

\* C18: a cancel succeeds only for the owner of the payment or the admin; from
\* anyone else it is rejected and the record stays as it is; a cancel that
\* succeeds removes the record, and no step of a cancel changes a balance, the
\* inventory or a history.
C18_CancelOwnerOrAdminOnly ==
    [][\A p \in Procs :
            (InCancel(p) /\ proc'[p] # proc[p])
            => /\ Ledger' = Ledger
               /\ \/ Pending' = Pending /\ proc'[p].out # "Cancelled"
                  \/ /\ Has(Pending, CancelKey(p))
                     /\ OwnerOrAdmin(p)
                     /\ Pending' = Del(Pending, CancelKey(p))
                     /\ proc'[p].out = "Cancelled"]_vars

\* the admin has cancelled a buyer's pending purchase
C18_Witness ==
    \E p \in Procs :
        /\ proc[p].op = "cancel"
        /\ proc[p].out = "Cancelled"
        /\ proc[p].user = AdminId
        /\ ~Has(Pending, proc[p].trx)

\* C19: a cancel of a payment that has already been fulfilled (or cancelled)
\* is answered with an error, not with success, and changes no payment
\* record: once an invoice has been fulfilled, no cancel of it ends Cancelled.
C19_NoCancelAfterFulfilment ==
    \A p \in Procs :
        (/\ variant = "store"
         /\ proc[p].op = "cancel"
         /\ proc[p].out = "Cancelled")
        => recorded[proc[p].trx] = 0

\* the answers that may be taken as paid: paid is the boolean true, or status
\* is a string that contains success, PAID or SETTLED in any case
ClaimedPaid(resp) ==
    /\ resp.ok
    /\ \/ resp.paid = Bool(TRUE)
       \/ /\ resp.status.t = "string"
          /\ LET status == toUpperCase(resp.status.s)
             IN \/ includes(status, <<"S", "U", "C", "C", "E", "S", "S">>)
                \/ includes(status, <<"P", "A", "I", "D">>)
                \/ includes(status, <<"S", "E", "T", "T", "L", "E", "D">>)

\* C20: a worker takes an invoice as paid only when the provider's answer has
\* paid === true or a status string containing success, PAID or SETTLED in
\* any case; a null answer, an answer with neither field and an answer whose
\* status is anything else (a boolean included) is never taken as paid.
C20_PaidOnlyOnPaidAnswer ==
    \A p \in Procs :
        (proc[p].pc = "read_done" /\ proc[p].out = "Paid") => ClaimedPaid(proc[p].rec)

\* invocation p is inside the handler of a confirm button (deposit) or a check
\* button (store, shop), and not on the path that removes an expired deposit
InConfirm(p) ==
    /\ proc[p].op \in {"confirm", "check"}
    /\ proc[p].pc \notin {"idle", "sweep_load", "dispatch", "done"}
    /\ proc[p].ret \notin {"sweep", "expired"}

\* C21: while the provider does not hold an invoice as paid (its status answer
\* is not-paid, or the call fails), no step of a confirm of that invoice
\* changes the pending records, a balance, the inventory or a history: the
\* confirm can be repeated and meets the same state.
C21_UnpaidConfirmChangesNothing ==
    [][\A p \in Procs :
            (InConfirm(p) /\ proc[p].trx \notin paid /\ proc'[p] # proc[p])
            => /\ Pending' = Pending
               /\ Ledger' = Ledger
               /\ proc'[p].pc = "done" =>
                    proc'[p].out \in {"NotYetPaid", "CheckFailed", "NotFound", "Mismatch"}]_vars


\* the create answer an invocation holds carries a payment id and a QR asset
Complete(resp) == resp # <<>> /\ resp.trxid # 0 /\ resp.qr

\* C22: a pending record is persisted only from a create answer that carries
\* the success status, a payment id and a QR asset; an invocation whose create
\* call failed or was answered without one of them writes no pending record
\* (a failed create touches no record: createQrisAndConfirm, createInvoice and
\* createQris leave kv alone)
C22_FailedCreateStoresNothing ==
    [][\A p \in Procs :
            (/\ proc'[p] # proc[p]
             /\ DOMAIN Pending' \ DOMAIN Pending # {}) => Complete(proc[p].resp)]_vars

\* an invocation inside the sweep of cleanupExpiredPayments
InSweep(p) == proc[p].pc = "sweep_load" \/ proc[p].ret = "sweep"

\* the keys of the pending records older than their expiry minutes at time t
ExpiredKeys(t) ==
    {k \in DOMAIN Pending : t - Pending[k].timestamp > Pending[k].expired_minutes}

\* the elements of a sequence
Range(seq) == {seq[i] : i \in 1..Len(seq)}

\* the keys a sweeping invocation still has to remove
ToRemove(pr) == Range(pr.todo) \cup (IF pr.ret = "sweep" THEN {pr.who} ELSE {})

\* C23: with one invocation at a time, a sweep at time now picks exactly the
\* records with now - createdAt > expiryMinutes, removes each of them and
\* nothing else, has none left to remove when it returns, and changes no
\* balance and no history
C23_SweepRemovesExactlyExpired ==
    [][\A p \in Procs : (InSweep(p) /\ proc'[p] # proc[p]) =>
            /\ Ledger' = Ledger
            /\ proc[p].pc = "sweep_load" =>
                    /\ ToRemove(proc'[p]) = ExpiredKeys(now)
                    /\ Pending' = Pending
            /\ proc[p].pc = "rm_load" => Pending' = Pending
            /\ proc[p].pc = "rm_save" =>
                    /\ Pending' = Del(Pending, proc[p].who)
                    /\ proc[p].who \in DOMAIN Pending
                    /\ ToRemove(proc'[p]) = ToRemove(proc[p]) \ {proc[p].who}
            /\ proc'[p].pc = "dispatch" => ToRemove(proc'[p]) = {}]_vars

\* a sweep has returned after removing an expired record and has left a
\* record that was not expired
C23_Witness ==
    /\ variant = "deposit"
    /\ \E p \in Procs : proc[p].pc = "dispatch"
    /\ swept # {}
    /\ \E k \in DOMAIN Pending :
            /\ Pending[k].transactionId \notin swept
            /\ now - Pending[k].timestamp <= Pending[k].expired_minutes

\* the deposit record of the confirming user is the one confirmed and is older
\* than its expiry minutes
ConfirmedExpired(pr) ==
    /\ Has(Pending, pr.user)
    /\ Pending[pr.user].transactionId = pr.trx
    /\ now - Pending[pr.user].timestamp > Pending[pr.user].expired_minutes

\* C24: a deposit confirm tests the record's expiry before it calls the
\* provider: it reaches the status call only from the lookup and only with a
\* record that is not expired, and a confirm that finds its record expired
\* goes on to the removal and ends as expired without the status call
C24_ExpiryBeforeProviderCall ==
    [][\A p \in Procs : (proc[p].op = "confirm" /\ proc'[p] # proc[p]) =>
            /\ proc'[p].pc = "conf_fetch" =>
                    proc[p].pc = "conf_get" /\ ~ConfirmedExpired(proc[p])
            /\ (proc[p].pc = "conf_get" /\ ConfirmedExpired(proc[p])) =>
                    proc'[p].pc = "rm_load" /\ proc'[p].ret = "expired"
            /\ proc[p].ret = "expired" =>
                    \/ proc'[p].pc = "rm_save" /\ proc'[p].ret = "expired"
                    \/ proc'[p].pc = "done" /\ proc'[p].out = "Expired"]_vars

\* a confirm of an invoice the payer has paid found the record expired and
\* ended without asking the provider
C24_Witness ==
    \E p \in Procs :
        /\ proc[p].op = "confirm"
        /\ proc[p].pc = "done"
        /\ proc[p].out = "Expired"
        /\ proc[p].trx \in paid

\* the lookup an invocation makes by the key of its payment finds a record:
\* pendings[userId] with the confirmed transaction id in the deposit bot,
\* pending[trxid] in the shops
Found(pr) ==
    IF variant = "deposit"
    THEN Has(Pending, pr.user) /\ Pending[pr.user].transactionId = pr.trx
    ELSE Has(Pending, pr.trx)

\* an invocation stands at the lookup of its payment's record in a handler
\* that only tests whether the record is there (part_000:355-356, 1118;
\* index.js:559-560, 583-584)
AtLookup(pr) == pr.pc \in {"conf_get", "chk_load", "cxl_load", "sc_get"}

\* C25: once an invoice has been fulfilled its record is detached from the
\* pending registry: with one invocation at a time, a later lookup by its key
\* (confirm, check, cancel) finds no pending payment
C25_FulfilledIsDetached ==
    \A p \in Procs :
        (AtLookup(proc[p]) /\ credited[proc[p].trx] > 0) => ~Found(proc[p])

\* history h is kept as the beginning of history g
IsPrefix(h, g) == Len(h) <= Len(g) /\ SubSeq(g, 1, Len(h)) = h

\* C26: the histories change only in a step of an invocation that fulfils a
\* payment (confirm, check, success webhook), and such a step only appends:
\* creating an invoice, cancelling, expiring or an unpaid confirm writes no
\* entry, and the entries already written stay as they are
C26_HistoryOnlyOnFulfilment ==
    [][kv'.transactions # kv.transactions =>
            /\ \E p \in Procs : proc'[p] # proc[p] /\ IsConfirm(proc[p])
            /\ \A u \in DOMAIN kv.transactions :
                    /\ u \in DOMAIN kv'.transactions
                    /\ IsPrefix(kv.transactions[u], kv'.transactions[u])]_vars


\* the text is a decimal number: digits only, at least one
Numeric(text) == text # <<>> /\ \A i \in 1..Len(text) : IsDigit(text[i])

\* the number a decimal text stands for
RECURSIVE NumberOf(_)
NumberOf(text) ==
    IF text = <<>> THEN 0
    ELSE 10 * NumberOf(SubSeq(text, 1, Len(text) - 1)) + DigitValue(text[Len(text)])

\* C27: a deposit message asks the provider for an invoice, and gets a pending
\* record, only when its text is a number and that number is at least
\* MIN_AMOUNT: for a text that is not a number, a nominal of zero or less or a
\* nominal below the minimum neither happens
C27_InvalidNominalCreatesNothing ==
    [][\A p \in Procs :
            (/\ proc[p].op = "deposit"
             /\ proc'[p] # proc[p]
             /\ \/ proc'[p].pc = "qris_fetch"
                \/ DOMAIN Pending' \ DOMAIN Pending # {})
            => /\ Numeric(proc[p].text)
               /\ NumberOf(proc[p].text) >= MinAmount]_vars

\* C28: with one invocation at a time, a deposit invocation that ends as
\* cancelled, expired or fulfilled leaves its user without a pending record;
\* a deposit message with a valid nominal from a user without a pending record
\* is not rejected as an unfinished deposit but goes on to the invoice; and the
\* record it then saves is the user's pending record, under the new invoice
C28_OwnerKeyFreedAfterRemoval ==
    [][\A p \in Procs : (variant = "deposit" /\ proc'[p] # proc[p]) =>
            /\ (/\ proc'[p].pc = "done"
                /\ proc'[p].out \in {"Cancelled", "Expired", "Fulfilled"})
               => ~Has(Pending', proc[p].user)
            /\ (/\ proc[p].pc = "dep_get"
                /\ ~Has(Pending, proc[p].user)
                /\ Numeric(proc[p].text)
                /\ NumberOf(proc[p].text) >= MinAmount)
               => proc'[p].pc = "qris_fetch"
            /\ proc[p].pc = "sv_save" =>
                    /\ Has(Pending', proc[p].user)
                    /\ Pending'[proc[p].user].transactionId = proc[p].trx]_vars

\* a user whose first deposit was fulfilled and removed has made a second
\* deposit, and it is pending under a new invoice
C28_Witness ==
    \E p \in Procs :
        /\ proc[p].op = "deposit"
        /\ proc[p].pc = "done"
        /\ proc[p].out = "Created"
        /\ Saldo(kv.users, proc[p].user) > 0
        /\ Has(Pending, proc[p].user)
        /\ Pending[proc[p].user].transactionId = proc[p].trx
        /\ credited[proc[p].trx] = 0

\* part_000:1173-1174  the user the profile shows: users[userId], or a fresh
\* one with no purchase (the registration of part_000:929-931 writes the same
\* counters, and nothing else writes them)
userProfile(users, userId) ==
    IF Has(users, userId) /\ "purchases" \in DOMAIN users[userId] THEN users[userId]
    ELSE [purchases |-> 0, totalSpent |-> 0]

\* the 'purchase' entries of a history and the sum of their amounts
PurchasesIn(h) == {i \in 1..Len(h) : h[i].type = "purchase"}
RECURSIVE SpentIn(_)
SpentIn(h) ==
    IF h = <<>> THEN 0
    ELSE SpentIn(Tail(h)) + (IF Head(h).type = "purchase" THEN Head(h).amount ELSE 0)

\* the history of a user
HistoryOf(u) == IF Has(kv.transactions, u) THEN kv.transactions[u] ELSE <<>>

\* C29: every fulfilled purchase adds one to the buyer's purchase count and its
\* amount to the buyer's lifetime spend: with one invocation at a time, once
\* the invocations have returned, the count is the number of the buyer's
\* purchases and the spend the sum of their amounts
C29_PurchaseCountsFollowPurchases ==
    (variant = "shop" /\ AtRest) =>
        \A u \in Users :
            /\ userProfile(kv.users, u).purchases = Cardinality(PurchasesIn(HistoryOf(u)))
            /\ userProfile(kv.users, u).totalSpent = SpentIn(HistoryOf(u))


\* the cap of the histories of the deployed worker
HistoryCap == IF variant = "shop" THEN ShopTxCap ELSE TxCap

\* the number of the last call of addTransaction a user's history shows
CallsFor(u) ==
    IF HistoryOf(u) = <<>> THEN 0 ELSE HistoryOf(u)[Len(HistoryOf(u))].amount

\* C30: after k calls of addTransaction for a user the user's history holds
\* the most recent min(k, N) transactions in the order they were added, the
\* oldest dropped first (N = 50 in the deposit bot, 100 in the shop); every
\* call made shows as the last entry of its user
C30_HistoryIsMostRecent ==
    /\ Sum([u \in Users |-> CallsFor(u)], Users) = requests
    /\ \A u \in Users :
        LET h == HistoryOf(u)
            k == CallsFor(u)
        IN /\ Len(h) = Min(k, HistoryCap)
           /\ \A i \in 1..Len(h) : h[i].amount = k - Len(h) + i

\* a history of the shop has reached its cap and lost its two oldest entries
C30_Witness ==
    /\ variant = "shop"
    /\ \E u \in Users :
            /\ Len(HistoryOf(u)) = ShopTxCap
            /\ HistoryOf(u)[1].amount = 3


\* C31: in the store a user's history never holds more than 200 entries, however
\* many purchases of the user have been fulfilled
C31_StoreHistoryCapped ==
    variant = "store" => \A u \in Users : Len(HistoryOf(u)) <= 200

\* the items the purchase entries of a user's history hold
ItemsOf(u) ==
    UNION {Range(HistoryOf(u)[i].items) : i \in 1..Len(HistoryOf(u))}

\* C32: when two paid purchases of the same product have each been fulfilled
\* once by invocations that may overlap, the product's list has shrunk by the
\* sum of the two quantities (one item each), and (the store records the items) no item was
\* delivered to two users
C32_NoItemDeliveredTwice ==
    (/\ AtRest
     /\ \A t \in TrxIds : recorded[t] = 1)
    => /\ \A sku \in DOMAIN kv.accounts :
            Len(Inventory(kv.accounts[sku])) = Len(InitialList) - MaxInvoices
       /\ variant = "store" =>
            \A u \in Users, v \in Users : u # v => ItemsOf(u) \cap ItemsOf(v) = {}

\* the key of the pending map an invocation is about to write or delete
WrittenKey(p) ==
    CASE proc[p].pc = "sv_save" -> proc[p].user
      [] proc[p].pc = "rm_save" -> proc[p].who
      [] OTHER -> proc[p].trx

\* an invocation saves the pending map it loaded and changed
SavesPending(p) ==
    /\ proc[p].pc \in {"sv_save", "rm_save", "start_psave", "srm_save"}
    /\ proc'[p] # proc[p]

\* C33: a save of the pending map by one invocation (savePendingPayment,
\* removePendingPayment, addPendingPayment) leaves the record under every key
\* other than the one it adds or removes as it was: no operation loses the
\* pending record of another user
C33_OtherUsersRecordsKept ==
    [][\A p \in Procs : SavesPending(p) =>
            \A k \in DOMAIN Pending \ {WrittenKey(p)} :
                /\ k \in DOMAIN Pending'
                /\ Pending'[k] = Pending[k]]_vars

\* an invocation saves the users object it loaded and credited
SavesUsers(p) == proc[p].pc = "users_save" /\ proc'[p] # proc[p]

\* C34: the write of 'users' by a deposit fulfilment for one user leaves the
\* balance of every other user as it was: no credit of one user is lost to
\* the fulfilment of another
C34_BothDepositsCredited ==
    [][\A p \in Procs : SavesUsers(p) =>
            \A u \in Users \ {proc[p].user} :
                Saldo(kv'.users, u) = Saldo(kv.users, u)]_vars

\* C35: processSuccessfulPayment is crash-consistent. credited[t] counts the
\* saves of 'accounts' that removed the items of invoice t from the list and
\* recorded[t] the purchase entries written for t: once no invocation is
\* running, the items of an invoice were removed at most once (a retry removes
\* no further items) and, if removed, are recorded in exactly one purchase
\* entry, also when an invocation stopped or a write failed on the way
C35_FulfilmentCrashConsistent ==
    (variant = "store" /\ AtRest) =>
        \A t \in TrxIds :
            /\ credited[t] <= 1
            /\ credited[t] = 1 => recorded[t] = 1

\* handleConfirmPayment is entered with a button of another transaction than
\* the user's pending deposit
StaleConfirm(p) ==
    /\ variant = "deposit"
    /\ proc[p].pc = "conf_get"
    /\ Has(Pending, proc[p].user)
    /\ Pending[proc[p].user].transactionId # proc[p].trx

\* C36: a confirm whose callback carries another transaction id than the
\* user's pending deposit ends in handleConfirmPayment with the mismatch
\* answer: the status endpoint is not called, no balance is credited, and the
\* pending record and every other stored value stay as they are
C36_StaleConfirmChangesNothing ==
    [][\A p \in Procs : (StaleConfirm(p) /\ proc'[p] # proc[p]) =>
            /\ proc'[p].pc = "done"
            /\ proc'[p].out = "Mismatch"
            /\ kv' = kv
            /\ credited' = credited
            /\ recorded' = recorded]_vars

\* a stale confirm has been answered and the user's deposit is still pending
C36_Witness ==
    \E p \in Procs :
        /\ variant = "deposit"
        /\ proc[p].pc = "done"
        /\ proc[p].op = "confirm"
        /\ proc[p].out = "Mismatch"
        /\ Has(Pending, proc[p].user)
        /\ Pending[proc[p].user].transactionId # proc[p].trx

\* the product and the quantity of the purchase an invocation is fulfilling
DeliveredSku(p) ==
    IF proc[p].pc = "psp_acc_save" THEN proc[p].buf[proc[p].trx].productSku
    ELSE proc[p].rec.productKey
DeliveredQty(p) ==
    IF proc[p].pc = "psp_acc_save" THEN proc[p].buf[proc[p].trx].qty
    ELSE proc[p].rec.qty

\* an invocation saves the product list it has taken a purchase's items from
\* (index.js:629, part_000:831), the list being non-empty before
DeliversFromList(p) ==
    /\ proc[p].pc \in {"psp_acc_save", "dl_save"}
    /\ proc'[p] # proc[p]
    /\ Has(kv.accounts, DeliveredSku(p))
    /\ Len(Inventory(kv.accounts[DeliveredSku(p)])) > 0

DeliversFromCounter(p) ==
    /\ proc[p].pc = "dl_save"
    /\ proc'[p] # proc[p]
    /\ Has(kv.accounts, DeliveredSku(p))
    /\ Len(Inventory(kv.accounts[DeliveredSku(p)])) = 0

\* C38: a delivery of a counter-backed product takes min(qty, stock) off the
\* stock and returns that many placeholders, and the stock is never negative
\* after it
C38_CounterStockNeverNegative ==
    [][\A p \in Procs : DeliversFromCounter(p) =>
            /\ kv'.accounts[DeliveredSku(p)].stock
                    = kv.accounts[DeliveredSku(p)].stock
                        - Min(DeliveredQty(p), kv.accounts[DeliveredSku(p)].stock)
            /\ Len(proc[p].todo) = Min(DeliveredQty(p), kv.accounts[DeliveredSku(p)].stock)
            /\ kv'.accounts[DeliveredSku(p)].stock >= 0]_vars

\* a purchase of one unit of a product out of stock has been delivered: no
\* placeholder, stock still 0
C38_Witness ==
    \E p \in Procs, sku \in DOMAIN kv.accounts :
        /\ proc[p].pc = "stx_load"
        /\ credited[proc[p].trx] = 1
        /\ proc[p].rec.qty = 1
        /\ proc[p].todo = <<>>
        /\ Inventory(kv.accounts[sku]) = <<>>
        /\ kv.accounts[sku].stock = 0

\* a webhook request is taken in
WebhookArrives(p) == proc[p].pc = "idle" /\ proc'[p].op = "webhook"

\* an invocation serving a webhook takes a step
WebhookSteps(p) == proc[p].op = "webhook" /\ proc'[p] # proc[p]

\* C39: with CALLBACK_SECRET configured, a webhook whose secret header is not
\* the secret is answered 401 and a webhook without a transaction id 400, and
\* neither invocation changes a stored value; a success webhook for an id with
\* no pending record ends in processSuccessfulPayment without changing a
\* stored value
C39_RejectedWebhookChangesNothing ==
    [][\A p \in Procs :
        /\ (WebhookArrives(p) /\ proc'[p].text # CALLBACK_SECRET)
                => proc'[p].pc = "done" /\ proc'[p].out = "Unauthorized"
        /\ (WebhookArrives(p) /\ proc'[p].text = CALLBACK_SECRET /\ proc'[p].trx = 0)
                => proc'[p].pc = "done" /\ proc'[p].out = "MissingTrx"
        /\ (WebhookSteps(p) /\ (proc[p].text # CALLBACK_SECRET \/ proc[p].trx = 0))
                => kv' = kv /\ credited' = credited /\ recorded' = recorded
        /\ (WebhookSteps(p) /\ proc[p].pc = "psp_load" /\ ~Has(Pending, proc[p].trx))
                => /\ proc'[p].pc = "done"
                   /\ kv' = kv /\ credited' = credited /\ recorded' = recorded]_vars

\* a webhook with a wrong secret header that names a pending invoice has been
\* answered 401
C39_Witness ==
    \E p \in Procs :
        /\ proc[p].pc = "done"
        /\ proc[p].op = "webhook"
        /\ proc[p].text = "wrong"
        /\ proc[p].out = "Unauthorized"
        /\ Has(Pending, proc[p].trx)

\* C40: over handleCron invocations that do not overlap, made at any times,
\* every broadcast is at most the second of its UTC clock hour (hour 0
\* included) and comes at least 30 minutes after the broadcast before it
C40_BroadcastRateLimited ==
    [][aired' # aired =>
            /\ aired'.inHour <= 2
            /\ aired.last # -1 => aired'.last - aired.last >= 30]_vars

\* two broadcasts have been sent within hour 0
C40_Witness ==
    /\ aired.inHour = 2
    /\ getUTCHours(aired.last) = 0
    /\ kv.broadcast.lastSentAt = aired.last

==============================================================================
